---- MODULE Spec2Model ----
(***************************************************************************)
(* A model of the driving-world simulator: the road graph and its editor,    *)
(* World.generate() and its helpers, the Car, and the trainers of the      *)
(* AutoTrain, CanvasEditor and Manual pages.                               *)
(*                                                                         *)
(* Geometry.  The primitives (Point, Segment, Polygon, Envelope, Graph)    *)
(* are modelled on an integer grid for collinear road graphs: every graph  *)
(* point lies on the x axis, an envelope is the axis-aligned rectangle     *)
(* around its segment, and the union of envelopes is the outline of the    *)
(* merged rectangles.  Random draws (Math.random) are nondeterministic     *)
(* choices over small sets.                                                *)
(***************************************************************************)
EXTENDS Integers, Sequences, FiniteSets, TLC

(***************************************************************************)
(* Bounds of the model                                                     *)
(***************************************************************************)
\* Number of Point objects the editor may create.
MaxPoints == 2
\* Graph points and the mouse lie at x in 0..MaxCoord (times GridStep).
MaxCoord == 2
\* generate() is followed for tree lists of at most this many trees.
MaxTrees == 1
\* Random tree positions are drawn from the lattice of this step.
SampleStep == 3
\* Math.random() in the grid placement takes the values k / RandDen.
RandDen == 8

(***************************************************************************)
(* World parameters (constructor arguments of World, obstacle.js:250-258), *)
(* scaled to the grid.  roadWidth is a multiple of 4 and buildingWidth of  *)
(* 2 so that every half and quarter width is a grid coordinate.            *)
(***************************************************************************)
RoadQuarter == 1
BuildingHalf == 1
buildingMinLength == 3
spacing == 1
TreeHalf == 1
roadWidth == 4 * RoadQuarter
buildingWidth == 2 * BuildingHalf
treeSize == 2 * TreeHalf
\* Distance between neighbouring grid coordinates of graph points.
GridStep == 4
\* generate() switches to its large-input branches above this many items.
LargeCount == 2000

Min2(a, b) == IF a <= b THEN a ELSE b
Max2(a, b) == IF a >= b THEN a ELSE b
Abs(a) == IF a < 0 THEN -a ELSE a
Range(s) == {s[i] : i \in DOMAIN s}

RECURSIVE Flatten(_)
Flatten(ss) == IF ss = <<>> THEN <<>> ELSE Head(ss) \o Flatten(Tail(ss))

(***************************************************************************)
(* State                                                                   *)
(***************************************************************************)
VARIABLES
  \* --- Graph (graph.points, graph.segments) and the Point objects
  points,        \* sequence of point ids, in insertion order
  px,            \* px[id]: the x coordinate of Point object id
  segments,      \* sequence of <<id, id>>: the segments, by Point identity
  \* --- GraphEditor
  selected, hovered, dragging, mouse,
  \* --- World: derived collections
  envelopes, roadBorders, buildings, trees, laneGuides, lastSegmentCount,
  \* --- #generateBuildings: the candidate bases before the rejection pass
  candidates,
  \* --- #generateBuildings: the guides it lays supports on, and the supports
  guideSegments, supportSegments,
  \* --- #generateTrees / #generateTreesSimplified: loop counters
  tryCount, consecutiveFailures, cellI, cellJ,
  \* --- the driving pages (AutoTrain, CanvasEditor training, Manual)
  page,            \* "auto", "canvas", "manual", or "none" when nothing drives
  cars,            \* the cars state: a sequence of Car records
  obstacles,       \* world.obstacles: the polygons of the placed obstacles
  stuckTimers,     \* carStuckTimersRef: per car, the ticks since the entry was set
  autoTimer,       \* the setTimeout(nextGeneration, 1000) of AutoTrain is pending
  generationTimer, \* generationTimerRef of CanvasEditor
  scored,          \* the population a generation ended with, after scoring
  resetTimers,     \* pending setTimeout(resetCarToStart, 1000) of Manual
  \* --- AutoTrain: the training state and what it persists
  isTraining,      \* the isTraining state
  generation,      \* the generation state (counted up to MaxGeneration)
  bestBrain,       \* localStorage 'bestBrain': 0 when absent, else the index
                   \* of the car of the scored population whose brain it holds
  timerCars,       \* per pending nextGeneration timer, the cars its closure holds
  \* --- controllers (brains) and the browser's localStorage
  heap,            \* the brain objects: reference -> value, Free when unused
  brains,          \* car.brain of each car of the population, as references
  trainedBrain,    \* CitySimulation: the object loadTrainedBrain returned
  localStorage,    \* key -> stored item
  \* --- Sensor and the inputs of the controller
  readings,        \* sensor.readings: per ray the offset of the nearest hit
  inputs,          \* the inputs given to NeuralNetwork.feedForward
  \* --- the world a page holds, beside its graph and derived collections
  params,          \* roadWidth ... treeSize and drivingSide of the world
  holdsWorld,      \* the page's worldRef.current (or world state) is a World
  worldLoaded,     \* the page's worldLoaded (isLoaded) state
  savedWorld,      \* history: the world as it was when it was last saved
  \* --- the traffic lights among world.markings
  frameCount,      \* world.frameCount
  lights,          \* the Light markings in list order: per light the
                   \* intersection nearest to its center, and its state
  \* --- history of the last operation
  lastOp,        \* the operation that made the last step: "generate" is
                 \* a generate() call after a graph mutation, "generateAgain"
                 \* one with no mutation since the call before it
  dirty          \* the graph was mutated since the last generate() call

graphVars == <<points, px, segments>>
editorVars == <<selected, hovered, dragging, mouse>>
derivedVars == <<envelopes, roadBorders, buildings, trees, laneGuides, lastSegmentCount>>
buildVars == <<candidates, guideSegments, supportSegments>>
treeVars == <<tryCount, consecutiveFailures, cellI, cellJ>>
trainVars == <<isTraining, generation, bestBrain, timerCars>>
brainVars == <<heap, brains, trainedBrain, localStorage>>
sensorVars == <<readings, inputs>>
storeVars == <<params, holdsWorld, worldLoaded, savedWorld>>
lightVars == <<frameCount, lights>>
otherVars == <<sensorVars, storeVars, lightVars>>
driveVars == <<page, cars, obstacles, stuckTimers, autoTimer, generationTimer,
               scored, resetTimers, trainVars, brainVars, otherVars>>
histVars == <<lastOp, dirty>>

Derived == [envelopes |-> envelopes, roadBorders |-> roadBorders,
            buildings |-> buildings, trees |-> trees, laneGuides |-> laneGuides]

PointIds == 1..MaxPoints
Coords == {GridStep * c : c \in 0..MaxCoord}
NoPoint == 0

(***************************************************************************)
(* Geometry kernel on the grid                                             *)
(***************************************************************************)
\* An axis-aligned rectangle (a Polygon) and an axis-aligned Segment.
Rect(x1, x2, y1, y2) == [x1 |-> x1, x2 |-> x2, y1 |-> y1, y2 |-> y2]
Seg(x1, y1, x2, y2) == [x1 |-> x1, y1 |-> y1, x2 |-> x2, y2 |-> y2]

\* new Envelope(seg, width): the skeleton and the polygon computed from the
\* segment's endpoints at construction time.
Envelope(xa, xb, width) ==
  [skeleton |-> <<xa, xb>>, width |-> width,
   poly |-> Rect(Min2(xa, xb) - width \div 2, Max2(xa, xb) + width \div 2,
                 -(width \div 2), width \div 2)]

\* k and k+1 lie in one rectangle of rs.
Linked(rs, k) == \E r \in rs : r.x1 <= k /\ k + 1 <= r.x2

\* The maximal merged x-intervals of a set of rectangles around the x axis.
Components(rs) ==
  LET los == {r.x1 : r \in rs}
      his == {r.x2 : r \in rs}
      starts == {l \in los : ~Linked(rs, l - 1)}
      EndOf(l) == CHOOSE h \in his : h >= l /\ ~Linked(rs, h)
                     /\ \A h2 \in his : (h2 >= l /\ ~Linked(rs, h2)) => h <= h2
  IN {<<l, EndOf(l)>> : l \in starts}

RECURSIVE SortedComponents(_)
SortedComponents(cs) ==
  IF cs = {} THEN <<>>
  ELSE LET c == CHOOSE c \in cs : \A d \in cs : c[1] <= d[1]
       IN <<c>> \o SortedComponents(cs \ {c})

\* Polygon.union(polys): the outline segments of the merged rectangles, per
\* component: bottom side, right cap, top side, left cap.
Union(polys) ==
  LET rs == Range(polys)
      Outline(c) ==
        LET r == CHOOSE r \in rs : r.x1 <= c[1] /\ TRUE
            h == r.y2
        IN << Seg(c[1], -h, c[2], -h), Seg(c[2], -h, c[2], h),
              Seg(c[1], h, c[2], h), Seg(c[1], -h, c[1], h) >>
      cs == SortedComponents(Components(rs))
  IN IF polys = <<>> THEN <<>> ELSE Flatten([i \in DOMAIN cs |-> Outline(cs[i])])

\* poly.segments of a rectangle.
PolySegments(r) ==
  << Seg(r.x1, r.y1, r.x2, r.y1), Seg(r.x2, r.y1, r.x2, r.y2),
     Seg(r.x1, r.y2, r.x2, r.y2), Seg(r.x1, r.y1, r.x1, r.y2) >>

SegLength(s) == Abs(s.x2 - s.x1) + Abs(s.y2 - s.y1)


(***************************************************************************)
(* World.#generateBuildings                                                *)
(***************************************************************************)
\* A building base: a rectangle whose coordinates are the fractions
\* x1/den .. y2/den, since a support's length is len/count of its guide.
Base(x1, x2, y1, y2, den) == [x1 |-> x1, x2 |-> x2, y1 |-> y1, y2 |-> y2, den |-> den]

\* A guide: an outline segment with its direction: along "x" at height
\* fixed from p1 to p2, or along "y" at abscissa fixed.
GuideOf(s) ==
  IF s.y1 = s.y2
  THEN [axis |-> "x", fixed |-> s.y1, p1 |-> Min2(s.x1, s.x2), p2 |-> Max2(s.x1, s.x2)]
  ELSE [axis |-> "y", fixed |-> s.x1, p1 |-> Min2(s.y1, s.y2), p2 |-> Max2(s.y1, s.y2)]

\* The test with the factor 1.2 in place of 0.8.
TooShortByFar(avail, count, minLen) == 5 * avail < 6 * minLen * count

\* buildingLength < this.buildingMinLength * 0.8, the building length being
\* avail / count (obstacle.js:707, 714).
TooShort(avail, count, minLen) == 5 * avail < 4 * minLen * count

\* The supports laid out on one guide (obstacle.js:685-744): each is
\* <<q1, q2, den>>, the numerators of its two ends over den.
Supports(g, minLen, sp) ==
  LET len == g.p2 - g.p1
      buildingCount == Max2(1, len \div (minLen + sp))
      availableLength == len - (buildingCount - 1) * sp
      \* buildingLength = availableLength / buildingCount
      reducedCount == Max2(1, buildingCount - 1)
      reducedAvailableLength == len - (reducedCount - 1) * sp
      Lay(n, avail) ==
        [i \in 1..n |-> << g.p1 * n + (i - 1) * (avail + sp * n),
                           g.p1 * n + (i - 1) * (avail + sp * n) + avail, n >>]
  IN IF len < minLen THEN <<>>
     ELSE IF TooShort(availableLength, buildingCount, minLen)
          THEN IF TooShort(reducedAvailableLength, reducedCount, minLen)
               THEN <<>>
               ELSE Lay(reducedCount, reducedAvailableLength)
          ELSE Lay(buildingCount, availableLength)

\* new Envelope(support, buildingWidth).poly
SupportBase(g, sup, width) ==
  LET den == sup[3]
      lo == ((2 * g.fixed - width) * den) \div 2
      hi == ((2 * g.fixed + width) * den) \div 2
  IN IF g.axis = "x" THEN Base(sup[1], sup[2], lo, hi, den)
                     ELSE Base(lo, hi, sup[1], sup[2], den)

\* bases[i].intersectsPoly(bases[j]): the rectangles share a point.
IntersectsPoly(a, b) ==
  /\ a.x1 * b.den <= b.x2 * a.den /\ b.x1 * a.den <= a.x2 * b.den
  /\ a.y1 * b.den <= b.y2 * a.den /\ b.y1 * a.den <= a.y2 * b.den

\* The gap between the rectangles along each axis, times a.den * b.den.
GapX(a, b) == Max2(0, Max2(b.x1 * a.den - a.x2 * b.den, a.x1 * b.den - b.x2 * a.den))
GapY(a, b) == Max2(0, Max2(b.y1 * a.den - a.y2 * b.den, a.y1 * b.den - b.y2 * a.den))

\* bases[i].distanceToPoly(bases[j]) < sp - eps, with eps = 0.001
\* (obstacle.js:758).  With d = a.den * b.den and n the square of the gap
\* times d * d, this is n < (sp * d - d / 1000)^2, an integer comparison:
\* n <= (sp * d)^2 - floor(d * d * (2000 * sp - 1) / 10^6) - 1.
CloserThan(a, b, sp) ==
  LET d == a.den * b.den
      n == GapX(a, b) * GapX(a, b) + GapY(a, b) * GapY(a, b)
  IN /\ sp >= 1
     /\ n <= sp * d * sp * d - ((d * d * (2000 * sp - 1)) \div 1000000) - 1

Conflict(a, b, sp) == IntersectsPoly(a, b) \/ CloserThan(a, b, sp)

RemoveAt(s, j) == [k \in 1..(Len(s) - 1) |-> IF k < j THEN s[k] ELSE s[k + 1]]

\* The inner loop of the rejection pass with a slip: the index is advanced
\* after a splice, so the base that moved into place j is never compared.
RECURSIVE InnerLoopSkipping(_, _, _, _)
InnerLoopSkipping(bases, i, j, sp) ==
  IF j > Len(bases) THEN bases
  ELSE IF Conflict(bases[i], bases[j], sp)
       THEN InnerLoopSkipping(RemoveAt(bases, j), i, j + 1, sp)
       ELSE InnerLoopSkipping(bases, i, j + 1, sp)

\* for (j = i + 1; j < bases.length; j++) { if (...) { splice(j, 1); j--; } }
RECURSIVE InnerLoop(_, _, _, _)
InnerLoop(bases, i, j, sp) ==
  IF j > Len(bases) THEN bases
  ELSE IF Conflict(bases[i], bases[j], sp)
       THEN InnerLoop(RemoveAt(bases, j), i, j, sp)
       ELSE InnerLoop(bases, i, j + 1, sp)

\* for (i = 0; i < bases.length - 1; i++) ...   (obstacle.js:759-772)
RECURSIVE RemoveIntersecting(_, _, _)
RemoveIntersecting(bases, i, sp) ==
  IF i > Len(bases) - 1 THEN bases
  ELSE RemoveIntersecting(InnerLoop(bases, i, i + 1, sp), i + 1, sp)

\* Guides of the graph: the outline of the wide envelopes, or, for a large
\* graph, the segments of every wide envelope; guides shorter than the
\* minimum building length are dropped.
BuildingGuides(segCoords) ==
  LET tmpEnvelopes == [i \in DOMAIN segCoords |->
          Envelope(segCoords[i][1], segCoords[i][2],
                   roadWidth + buildingWidth + spacing * 4)]
      polys == [i \in DOMAIN tmpEnvelopes |-> tmpEnvelopes[i].poly]
      guides == IF Len(tmpEnvelopes) > LargeCount
                THEN Flatten([i \in DOMAIN polys |-> PolySegments(polys[i])])
                ELSE Union(polys)
  IN SelectSeq(guides, LAMBDA s : ~(SegLength(s) < buildingMinLength))

GenerateBuildings(segCoords) ==
  LET guides == BuildingGuides(segCoords)
      bases == Flatten([k \in DOMAIN guides |->
                 LET g == GuideOf(guides[k])
                     sups == Supports(g, buildingMinLength, spacing)
                 IN [i \in DOMAIN sups |-> SupportBase(g, sups[i], buildingWidth)]])
  IN RemoveIntersecting(bases, 1, spacing)


(***************************************************************************)
(* World.#generateTrees and World.#generateTreesSimplified                 *)
(***************************************************************************)
\* Attempt budget and consecutive-rejection budget of the sampling loop
\* (2000 and 300 in obstacle.js:504), scaled.
TreeTryLimit == 4
TreeFailLimit == 2
\* "Always allow first 10 trees" (obstacle.js:542).
SeedTrees == 10

Tree(p, size) == [center |-> p, size |-> size]
AsBase(r) == Base(r.x1, r.x2, r.y1, r.y2, 1)

\* poly.containsPoint(p), for a rectangle with coordinates over den.
ContainsPoint(b, p) ==
  /\ b.x1 <= p[1] * b.den /\ p[1] * b.den <= b.x2
  /\ b.y1 <= p[2] * b.den /\ p[2] * b.den <= b.y2

\* The square of poly.distanceToPoint(p), times den * den.
DistSqToPoint(b, p) ==
  LET dx == Max2(0, Max2(b.x1 - p[1] * b.den, p[1] * b.den - b.x2))
      dy == Max2(0, Max2(b.y1 - p[2] * b.den, p[2] * b.den - b.y2))
  IN dx * dx + dy * dy

\* The square of distance(p, q).
DistSq(p, q) == (p[1] - q[1]) * (p[1] - q[1]) + (p[2] - q[2]) * (p[2] - q[2])

\* poly.containsPoint(p) || poly.distanceToPoint(p) < size / 3
TooNearPoly(b, p, size) ==
  ContainsPoint(b, p) \/ 9 * DistSqToPoint(b, p) < size * size * b.den * b.den

\* distance(tree.center, p) < size * 0.6
TooNearTree(t, p, size) == 25 * DistSq(t.center, p) < 9 * size * size

\* poly.distanceToPoint(p) < size * 2
CloseTo(b, p, size) == DistSqToPoint(b, p) < 4 * size * size * b.den * b.den

\* for (const tree of trees) if (distance(tree.center, p) < size * 0.6) keep = false
SpacedFromTrees(treeList, p, size) ==
  \A i \in DOMAIN treeList : ~TooNearTree(treeList[i], p, size)

\* One pass of the body of the sampling loop for the sample p: TRUE when
\* the tree is pushed (obstacle.js:511-550).
TreeKeep(treeList, p, illegalPolys, size) ==
  /\ \A i \in DOMAIN illegalPolys : ~TooNearPoly(illegalPolys[i], p, size)
  /\ SpacedFromTrees(treeList, p, size)
  /\ \/ \E i \in DOMAIN illegalPolys : CloseTo(illegalPolys[i], p, size)
     \/ Len(treeList) < SeedTrees

\* The bounding box of the road borders and the building bases
\* (obstacle.js:475-492), rounded outwards to the grid; <<>> without points.
BoundingBox(borders, bases) ==
  LET xs == {borders[i].x1 : i \in DOMAIN borders} \cup {borders[i].x2 : i \in DOMAIN borders}
      ys == {borders[i].y1 : i \in DOMAIN borders} \cup {borders[i].y2 : i \in DOMAIN borders}
      bl == {bases[i].x1 \div bases[i].den : i \in DOMAIN bases}
      br == {-((-bases[i].x2) \div bases[i].den) : i \in DOMAIN bases}
      bt == {bases[i].y1 \div bases[i].den : i \in DOMAIN bases}
      bb == {-((-bases[i].y2) \div bases[i].den) : i \in DOMAIN bases}
      SetMin(S) == CHOOSE m \in S : \A n \in S : m <= n
      SetMax(S) == CHOOSE m \in S : \A n \in S : m >= n
  IN IF xs \cup bl = {} THEN <<>>
     ELSE [left |-> SetMin(xs \cup bl), right |-> SetMax(xs \cup br),
           top |-> SetMin(ys \cup bt), bottom |-> SetMax(ys \cup bb)]

\* The values new Point(lerp(left, right, random), lerp(top, bottom, random))
\* takes in the model.
TreeSamples(box) ==
  {<<x, y>> \in (box.left..box.right) \X (box.top..box.bottom) :
       x % SampleStep = 0 /\ y % SampleStep = 0}

IllegalPolys(bases, envs) == bases \o [i \in DOMAIN envs |-> AsBase(envs[i].poly)]

\* Every tree list one sampling run can return that has at most n trees:
\* the lists whose every tree was kept against the trees before it.
RECURSIVE TreeLists(_, _, _, _)
TreeLists(treeList, samples, illegalPolys, n) ==
  IF n = 0 THEN {treeList}
  ELSE {treeList} \cup
       UNION { TreeLists(Append(treeList, Tree(p, treeSize)), samples, illegalPolys, n - 1) :
                 p \in {q \in samples : TreeKeep(treeList, q, illegalPolys, treeSize)} }

\* The cell offsets (i + Math.random()) * gridSize with gridSize = 4 * size.
CellOffsets(i, size) == {((i * RandDen + k) * 4 * size) \div RandDen : k \in 0..(RandDen - 1)}

CeilDiv(a, b) == -((-a) \div b)

\* The grid of #generateTreesSimplified (obstacle.js:563-598).
SimplifiedGrid(borders, nBuildings, size) ==
  LET first == SubSeq(borders, 1, Min2(100, Len(borders)))
      box == BoundingBox(first, <<>>)
      width == Min2(box.right - box.left, 50000)
      height == Min2(box.bottom - box.top, 50000)
      gridSize == size * 4
  IN [maxTrees |-> Min2(500, nBuildings \div 10),
      left |-> (box.left + box.right - width) \div 2,
      top |-> (box.top + box.bottom - height) \div 2,
      cols |-> Min2(50, CeilDiv(width, gridSize)),
      rows |-> Min2(50, CeilDiv(height, gridSize))]

\* The positions the grid placement can push for cell (i, j): the cell is
\* skipped with probability 0.7, and a position is rejected only when one of
\* the 50 buildings drawn at random lies within size of it.
CellTrees(grid, i, j, bases, size) ==
  {p \in {<<grid.left + dx, grid.top + dy>> :
            dx \in CellOffsets(i, size), dy \in CellOffsets(j, size)} :
     ~(\A k \in DOMAIN bases :
          DistSqToPoint(bases[k], p) < size * size * bases[k].den * bases[k].den)
       \/ bases = <<>>}


(***************************************************************************)
(* Graph                                                                   *)
(***************************************************************************)
NoMouse == -1

\* point.equals(q): equality by coordinate.
PointEquals(a, b) == px[a] = px[b]

\* seg.includes(point)
SegIncludes(seg, p) == PointEquals(seg[1], p) \/ PointEquals(seg[2], p)

\* seg.equals(other): the same endpoints in either order.
SegEquals(s, t) == SegIncludes(s, t[1]) /\ SegIncludes(s, t[2])

\* graph.tryAddSegment(seg): the segments afterwards.
TryAddSegment(segs, seg) ==
  IF (\E i \in DOMAIN segs : SegEquals(segs[i], seg)) \/ PointEquals(seg[1], seg[2])
  THEN segs
  ELSE Append(segs, seg)

\* graph.removePoint(point): the incident segments go, then the point.
RemovePointSegments(segs, p) == SelectSeq(segs, LAMBDA sg : ~SegIncludes(sg, p))
RemovePointPoints(pts, p) == SelectSeq(pts, LAMBDA q : q # p)

\* getNearestPoint(mouse, graph.points, 10 * zoom): the first graph point at
\* the mouse (grid coordinates are farther apart than the threshold).
NearestPoint(m) ==
  IF \E i \in DOMAIN points : px[points[i]] = m
  THEN points[CHOOSE i \in DOMAIN points :
                 px[points[i]] = m /\ \A k \in DOMAIN points : px[points[k]] = m => i <= k]
  ELSE NoPoint

FreeIds == PointIds \ Range(points)

SegCoords == [i \in DOMAIN segments |-> <<px[segments[i][1]], px[segments[i][2]]>>]

(***************************************************************************)
(* World.generate                                                          *)
(***************************************************************************)
RoadEnvelopes(segCoords, width) ==
  [i \in DOMAIN segCoords |-> Envelope(segCoords[i][1], segCoords[i][2], width)]

Polys(envs) == [i \in DOMAIN envs |-> envs[i].poly]

\* Road borders: the union of the envelopes, or every envelope's own
\* segments above the large-input threshold (obstacle.js:388-415).
RoadBorders(envs) ==
  IF Len(envs) > LargeCount
  THEN Flatten([i \in DOMAIN envs |-> PolySegments(envs[i].poly)])
  ELSE Union(Polys(envs))

\* #generateLaneGuides, skipped above the threshold (obstacle.js:436-462).
LaneGuides(segCoords) ==
  IF Len(segCoords) > LargeCount THEN <<>>
  ELSE Union(Polys(RoadEnvelopes(segCoords, roadWidth \div 2)))

\* The tree lists #generateTrees can return for these borders, buildings
\* and envelopes, up to MaxTrees trees.
GenerateTrees(borders, bases, envs) ==
  LET box == BoundingBox(borders, bases)
  IN IF Len(bases) > LargeCount
     THEN IF borders = <<>> THEN {<<>>}
          ELSE LET grid == SimplifiedGrid(borders, Len(bases), treeSize)
               IN {<<>>} \cup { <<Tree(p, treeSize)>> :
                     p \in UNION {CellTrees(grid, i, j, bases, treeSize) :
                                    i \in 0..(grid.cols - 1), j \in 0..(grid.rows - 1)} }
     ELSE IF box = <<>> THEN {<<>>}
     ELSE TreeLists(<<>>, TreeSamples(box), IllegalPolys(bases, envs),
                    Min2(MaxTrees, TreeTryLimit))

\* generate() with the early return removed: it regenerates on every call.
GenerateNeverSkips == FALSE

\* if (currentSegmentCount === this.lastSegmentCount && this.envelopes.length > 0) return;
GenerateSkips == Len(segments) = lastSegmentCount /\ Len(envelopes) > 0

Generate ==
  IF GenerateSkips THEN UNCHANGED derivedVars
  ELSE LET envs == RoadEnvelopes(SegCoords, roadWidth)
           borders == RoadBorders(envs)
           bases == GenerateBuildings(SegCoords)
       IN /\ lastSegmentCount' = Len(segments)
          /\ envelopes' = envs
          /\ roadBorders' = borders
          /\ buildings' = bases
          /\ trees' \in GenerateTrees(borders, bases, envs)
          /\ laneGuides' = LaneGuides(SegCoords)


(***************************************************************************)
(* The world builder: GraphEditor events and the host loop                 *)
(***************************************************************************)
worldVars == <<graphVars, editorVars, derivedVars, histVars>>

\* new World(): an empty graph, nothing derived; a disabled editor.
InitWorld ==
  /\ points = <<>> /\ px = [id \in PointIds |-> 0] /\ segments = <<>>
  /\ selected = NoPoint /\ hovered = NoPoint /\ dragging = FALSE /\ mouse = NoMouse
  /\ envelopes = <<>> /\ roadBorders = <<>> /\ buildings = <<>>
  /\ trees = <<>> /\ laneGuides = <<>> /\ lastSegmentCount = 0
  /\ lastOp = "new" /\ dirty = FALSE

(***************************************************************************)
(* Brain objects and localStorage.  A brain is followed by its class, the  *)
(* number of its inputs and one number (genome) standing for its weights   *)
(* and biases.                                                             *)
(***************************************************************************)
\* The populations whose brains are followed have BrainN cars.
BrainN == 3
MaxGenome == 2
Genomes == 0..MaxGenome
\* this.rayCount = opts.rayCount ?? 5
rayCount == 5
\* Room for the brains of a population and of its parents.
Refs == 1..(2 * BrainN)
NoRef == 0
Free == [cls |-> "free"]
EmptyHeap == [r \in Refs |-> Free]

\* localStorage.getItem of a key that was never set, or was removed
NoItem == [kind |-> "null"]
StorageKeys == {"bestBrain", "bestBrain.ai", "virtualWorld"}
EmptyStorage == [k \in StorageKeys |-> NoItem]

\* No page holds a brain and nothing is stored.
InitNoBrains ==
  /\ heap = EmptyHeap /\ brains = <<>> /\ trainedBrain = NoRef
  /\ localStorage = EmptyStorage

\* this.readings = []
InitNoSensor == readings = <<>> /\ inputs = <<>>

\* roadRoundness = 10
roadRoundness == 10
\* The parameters of new World(), whose drivingSide is 'left'; side names
\* the drivingSide of a world on which it was set later.
WorldParams(side) ==
  [roadWidth |-> roadWidth, roadRoundness |-> roadRoundness,
   buildingWidth |-> buildingWidth, buildingMinLength |-> buildingMinLength,
   spacing |-> spacing, treeSize |-> treeSize, drivingSide |-> side]
NoSave == [by |-> "nobody"]

\* The page holds a world with the parameters of new World(); nothing was
\* saved.
InitNoStore ==
  /\ params = WorldParams("left") /\ holdsWorld = TRUE /\ worldLoaded = FALSE
  /\ savedWorld = NoSave

\* The world has no Light marking and was not drawn.
InitNoLights == frameCount = 0 /\ lights = <<>>

\* No generation helper is running on its own.
InitBuild == candidates = <<>> /\ guideSegments = <<>> /\ supportSegments = <<>>
InitTrees == tryCount = 0 /\ consecutiveFailures = 0 /\ cellI = 0 /\ cellJ = 0
\* No page drives a car.
InitNoDrive ==
  /\ page = "none" /\ cars = <<>> /\ obstacles = <<>> /\ stuckTimers = <<>>
  /\ autoTimer = FALSE /\ generationTimer = 0 /\ scored = <<>> /\ resetTimers = 0
  /\ isTraining = FALSE /\ generation = 1 /\ bestBrain = 0 /\ timerCars = <<>>
  /\ InitNoBrains /\ InitNoSensor /\ InitNoStore /\ InitNoLights

\* An editor event: the graph counts as mutated when a point or a segment
\* was added, removed or moved.
Edited ==
  /\ lastOp' = "edit"
  /\ dirty' = (dirty \/ graphVars' # graphVars)

\* #handleMouseMove: the mouse and the hovered point, and while dragging
\* the selected Point object follows the mouse (grapheditor.js:54-61).
MouseMove(m) ==
  /\ mouse' = m
  /\ hovered' = NearestPoint(m)
  /\ IF dragging /\ selected # NoPoint
     THEN px' = [px EXCEPT ![selected] = m]
     ELSE px' = px
  /\ UNCHANGED <<points, segments, selected, dragging, derivedVars>>
  /\ Edited

\* #removePoint that forgets to clear the hovered point.
RemovePointKeepsHover(point) ==
  [hovered |-> hovered,
   selected |-> IF selected = point THEN NoPoint ELSE selected]

\* What #removePoint(point) leaves in the editor after graph.removePoint:
\* no hovered point, and no selected point if it was the removed one
\* (grapheditor.js:92-99).
RemovePoint(point) ==
  [hovered |-> NoPoint,
   selected |-> IF selected = point THEN NoPoint ELSE selected]

\* #handleMouseDown with button 2 (grapheditor.js:64-73).
RightClick ==
  /\ IF selected # NoPoint
     THEN /\ selected' = NoPoint
          /\ UNCHANGED <<points, segments, hovered, px>>
     ELSE IF hovered # NoPoint
          THEN \* #removePoint(hovered)
               /\ segments' = RemovePointSegments(segments, hovered)
               /\ points' = RemovePointPoints(points, hovered)
               /\ hovered' = RemovePoint(hovered).hovered
               /\ selected' = RemovePoint(hovered).selected
               /\ px' = [px EXCEPT ![hovered] = 0]
          ELSE UNCHANGED <<points, segments, hovered, selected, px>>
  /\ UNCHANGED <<dragging, mouse, derivedVars>>
  /\ Edited

\* #handleMouseDown with button 0 on a hovered point: #select and drag.
LeftClickPoint ==
  /\ hovered # NoPoint
  /\ segments' = IF selected # NoPoint
                 THEN TryAddSegment(segments, <<selected, hovered>>)
                 ELSE segments
  /\ selected' = hovered
  /\ dragging' = TRUE
  /\ UNCHANGED <<points, px, hovered, mouse, derivedVars>>
  /\ Edited

\* #handleMouseDown with button 0 on empty ground: the mouse Point is added
\* to the graph, selected and hovered (grapheditor.js:80-82).
LeftClickGround ==
  /\ hovered = NoPoint /\ mouse # NoMouse /\ FreeIds # {}
  /\ LET id == CHOOSE i \in FreeIds : \A k \in FreeIds : i <= k
         pxNew == [px EXCEPT ![id] = mouse]
     IN /\ points' = Append(points, id)
        /\ px' = pxNew
        /\ segments' = IF selected # NoPoint /\ pxNew[selected] # mouse
                          /\ ~\E i \in DOMAIN segments :
                                /\ pxNew[segments[i][1]] \in {pxNew[selected], mouse}
                                /\ pxNew[segments[i][2]] \in {pxNew[selected], mouse}
                                /\ pxNew[segments[i][1]] # pxNew[segments[i][2]]
                       THEN Append(segments, <<selected, id>>)
                       ELSE segments
        /\ selected' = id
        /\ hovered' = id
  /\ UNCHANGED <<dragging, mouse, derivedVars>>
  /\ Edited

\* mouseup: this.dragging = false
MouseUp ==
  /\ dragging
  /\ dragging' = FALSE
  /\ UNCHANGED <<graphVars, selected, hovered, mouse, derivedVars>>
  /\ Edited

\* The host loop's frame: if (world.graph.segments.length > 0) world.generate()
LoopGenerate ==
  /\ Len(segments) > 0
  /\ Generate
  /\ UNCHANGED <<graphVars, editorVars>>
  /\ lastOp' = IF dirty THEN "generate" ELSE "generateAgain"
  /\ dirty' = FALSE

NextWorld ==
  \/ (\E m \in Coords : MouseMove(m)) /\ UNCHANGED <<buildVars, treeVars, driveVars>>
  \/ RightClick /\ UNCHANGED <<buildVars, treeVars, driveVars>>
  \/ LeftClickPoint /\ UNCHANGED <<buildVars, treeVars, driveVars>>
  \/ LeftClickGround /\ UNCHANGED <<buildVars, treeVars, driveVars>>
  \/ MouseUp /\ UNCHANGED <<buildVars, treeVars, driveVars>>
  \/ LoopGenerate /\ UNCHANGED <<buildVars, treeVars, driveVars>>

vars == <<worldVars, buildVars, treeVars, driveVars>>

\* The world builder page has opened on an empty world.
InitBuilder == InitWorld /\ InitBuild /\ InitTrees /\ InitNoDrive

SpecWorld == InitBuilder /\ [][NextWorld]_vars

(***************************************************************************)
(* Properties of World.generate under the world builder                    *)
(***************************************************************************)
\* C1: generate() is idempotent.  A generate() call made with no graph
\* mutation since the generate() call before it leaves envelopes,
\* roadBorders, buildings, trees and laneGuides exactly as they were.
C1_GenerateIdempotent ==
  [][lastOp' = "generateAgain" => Derived' = Derived]_vars

\* A second generate() call has been made on a world with a road, buildings
\* and a tree.
C1_Witness ==
  /\ lastOp = "generateAgain"
  /\ Len(segments) >= 1 /\ envelopes # <<>> /\ buildings # <<>> /\ trees # <<>>

\* C2: after any change to the graph, the next generate() call of the host
\* loop fully replaces the derived collections: there is exactly one
\* envelope per current segment, built from its current endpoints, and the
\* borders, buildings, trees and lane guides are those of the current graph.
C2_RegenerationReplaces ==
  lastOp = "generate" =>
    /\ envelopes = RoadEnvelopes(SegCoords, roadWidth)
    /\ roadBorders = RoadBorders(RoadEnvelopes(SegCoords, roadWidth))
    /\ buildings = GenerateBuildings(SegCoords)
    /\ laneGuides = LaneGuides(SegCoords)
    /\ trees \in GenerateTrees(roadBorders, buildings, envelopes)

(***************************************************************************)
(* The rejection pass of #generateBuildings on arbitrary candidate lists   *)
(***************************************************************************)
\* Candidate lists hold at most MaxBases bases; a candidate is a square of
\* side BaseSide with its corner on the lattice 0..MaxBaseCoord x 0..1.
MaxBases == 4
MaxBaseCoord == 4
BaseSide == 1

BaseLattice ==
  {Base(x, x + BaseSide, y, y + BaseSide, 1) : x \in 0..MaxBaseCoord, y \in 0..1}

CandidateLists ==
  UNION {[1..n -> BaseLattice] : n \in 0..MaxBases}

\* The local list bases of #generateBuildings after the supports became
\* envelopes (obstacle.js:748-754), in any number and order.
InitBuildings ==
  /\ InitWorld /\ InitTrees /\ InitNoDrive
  /\ candidates \in CandidateLists
  /\ guideSegments = <<>> /\ supportSegments = <<>>

\* The rejection pass and the mapping of the surviving bases to buildings
\* (obstacle.js:756-775).
RejectionPass ==
  /\ lastOp = "new"
  /\ buildings' = RemoveIntersecting(candidates, 1, spacing)
  /\ lastOp' = "buildings"
  /\ UNCHANGED <<graphVars, editorVars, envelopes, roadBorders, trees, laneGuides,
                 lastSegmentCount, dirty, buildVars, treeVars, driveVars>>

NextBuild == RejectionPass

SpecBuild == InitBuildings /\ [][NextBuild]_vars

\* C3: in the list #generateBuildings returns, the footprints of every two
\* distinct buildings do not intersect and are at least spacing - 0.001
\* apart, whatever the number and order of the candidates.
C3_BuildingsApart ==
  lastOp = "buildings" =>
    \A i, j \in DOMAIN buildings :
      i # j => /\ ~IntersectsPoly(buildings[i], buildings[j])
               /\ ~CloserThan(buildings[i], buildings[j], spacing)

\* The pass has run on three or more candidates, removed some and kept
\* two or more.
C3_Witness ==
  /\ lastOp = "buildings"
  /\ Len(candidates) >= 3
  /\ Len(buildings) >= 2 /\ Len(buildings) < Len(candidates)

(***************************************************************************)
(* The two tree placement loops, one iteration per step                    *)
(***************************************************************************)
\* Roads the loops are run on: one segment from 0 to RoadCells grid cells.
RoadCells == 2

\* The buildings of a large city: a row of LargeCount + 1 bases along the
\* road side, each buildingMinLength long and spacing apart, as laid out by
\* #generateBuildings; roadBorders holds the borders the bounding box of
\* #generateTreesSimplified is taken from (its first 100 segments).
BuildingRow ==
  [k \in 1..(LargeCount + 1) |->
     Base((k - 1) * (buildingMinLength + spacing),
          (k - 1) * (buildingMinLength + spacing) + buildingMinLength,
          roadWidth \div 2 + 2 * spacing,
          roadWidth \div 2 + 2 * spacing + buildingWidth, 1)]

\* generate() has set envelopes, roadBorders and buildings and calls
\* #generateTrees (obstacle.js:384-424).
InitPlacement ==
  /\ points = <<>> /\ px = [id \in PointIds |-> 0] /\ segments = <<>>
  /\ selected = NoPoint /\ hovered = NoPoint /\ dragging = FALSE /\ mouse = NoMouse
  /\ \E c \in 1..RoadCells :
       LET segCoords == << <<0, GridStep * c>> >>
       IN /\ envelopes = RoadEnvelopes(segCoords, roadWidth)
          /\ roadBorders = RoadBorders(envelopes)
          /\ buildings \in {GenerateBuildings(segCoords), BuildingRow}
  /\ trees = <<>> /\ laneGuides = <<>> /\ lastSegmentCount = 1
  /\ lastOp = "new" /\ dirty = FALSE
  /\ InitBuild /\ InitTrees /\ InitNoDrive

untouchedByTrees ==
  <<graphVars, editorVars, envelopes, roadBorders, buildings, laneGuides,
    lastSegmentCount, dirty, buildVars, driveVars>>

\* The sampling loop with no budget of attempts.
KeepsSamplingUntilRejected == consecutiveFailures < TreeFailLimit

\* while (tryCount < 2000 && consecutiveFailures < 300)
KeepsSampling == tryCount < TreeTryLimit /\ consecutiveFailures < TreeFailLimit

\* One iteration of the sampling loop of #generateTrees for the sample p
\* (obstacle.js:504-553).
TreeTry(p) ==
  /\ lastOp = "new"
  /\ ~(Len(buildings) > LargeCount)
  /\ KeepsSampling
  /\ IF TreeKeep(trees, p, IllegalPolys(buildings, envelopes), treeSize)
     THEN /\ trees' = Append(trees, Tree(p, treeSize))
          /\ consecutiveFailures' = 0
     ELSE /\ trees' = trees
          /\ consecutiveFailures' = consecutiveFailures + 1
  /\ tryCount' = tryCount + 1
  /\ UNCHANGED <<cellI, cellJ, lastOp, untouchedByTrees>>

\* The end of an inner loop of the grid placement moves to the next column.
NextCell(grid, nTrees) ==
  IF cellJ + 1 < grid.rows /\ nTrees < grid.maxTrees
  THEN <<cellI, cellJ + 1>>
  ELSE <<cellI + 1, 0>>

\* One cell of the grid placement of #generateTreesSimplified
\* (obstacle.js:602-624): the cell is skipped, or its random position is
\* rejected, or a tree is pushed at it.
TreeCell ==
  /\ lastOp = "new"
  /\ Len(buildings) > LargeCount /\ roadBorders # <<>>
  /\ LET grid == SimplifiedGrid(roadBorders, Len(buildings), treeSize)
     IN /\ cellI < grid.cols /\ cellJ < grid.rows /\ Len(trees) < grid.maxTrees
        /\ \/ trees' = trees
           \/ \E p \in CellTrees(grid, cellI, cellJ, buildings, treeSize) :
                trees' = Append(trees, Tree(p, treeSize))
        /\ cellI' = NextCell(grid, Len(trees'))[1]
        /\ cellJ' = NextCell(grid, Len(trees'))[2]
  /\ UNCHANGED <<tryCount, consecutiveFailures, lastOp, untouchedByTrees>>

\* The loop condition fails and the helper returns its list, which
\* generate() stores in this.trees (obstacle.js:424).
TreesReturn ==
  /\ lastOp = "new"
  /\ IF Len(buildings) > LargeCount
     THEN \/ roadBorders = <<>>
          \/ LET grid == SimplifiedGrid(roadBorders, Len(buildings), treeSize)
             IN ~(cellI < grid.cols /\ Len(trees) < grid.maxTrees)
     ELSE ~KeepsSampling
  /\ lastOp' = "trees"
  /\ UNCHANGED <<trees, treeVars, untouchedByTrees>>

\* The samples of the sampling loop; the loop is not entered for a large
\* building count.
LoopSamples ==
  IF Len(buildings) > LargeCount THEN {}
  ELSE TreeSamples(BoundingBox(roadBorders, buildings))

NextTrees ==
  \/ \E p \in LoopSamples : TreeTry(p)
  \/ TreeCell
  \/ TreesReturn

SpecTrees == InitPlacement /\ [][NextTrees]_vars

\* C4: in the final tree list of generate() the centres of every two
\* distinct trees are at least treeSize * 0.6 apart, on the normal path and
\* on the large-input path.
C4_TreesApart ==
  lastOp = "trees" =>
    \A i, j \in DOMAIN trees :
      i # j => ~(25 * DistSq(trees[i].center, trees[j].center) < 9 * treeSize * treeSize)

(***************************************************************************)
(* Car (car.js).  Cars drive along the road, in the direction of the x     *)
(* axis; speeds and lengths are in units of the friction (0.05).           *)
(***************************************************************************)
\* The car's top speed is 2 * HalfMaxSpeed units (the maxSpeed argument of
\* the constructor), its polygon reaches CarHalf units to either side of
\* its centre along the road and CarHalfWidth units across it.
HalfMaxSpeed == 3
CarHalf == 1
CarHalfWidth == 1
acceleration == 4
friction == 1
maxSpeed == 2 * HalfMaxSpeed

\* The road the cars drive on: one segment of DriveCells grid cells, the
\* Start marking on its first point (StartMarkX), the Target marking at the
\* far end.
DriveCells == 4
StartMarkX == 0
\* The spawn shift of 15 units to the driving side of the Start marking,
\* whose direction is the default one of the graph editor.
SpawnShift == 3
\* startX of getStartPosition, of restartTraining and of resetCarToStart.
StartX == StartMarkX + SpawnShift
RoadLen == GridStep * DriveCells
TargetX == RoadLen

\* car.polygon before the first update.
NoPolygon == Rect(0, 0 - 1, 0, 0 - 1)
\* car._lastD before it is first written.
NoD == 0 - 1

\* new Car(x, y, 30, 50, controlType, angle)
NewCar(x) ==
  [x |-> x, speed |-> 0, damaged |-> FALSE,
   damageType |-> "none", polygon |-> NoPolygon, fitness |-> 0,
   lastD |-> NoD, noProgressFrames |-> 0, idle |-> 0]

\* The guard on this.damaged of update(), and of the loops of the pages.
UndamagedAlways(car) == TRUE
Undamaged(car) == ~car.damaged

\* #move without the limits on the speed.
MoveUnlimited(car, ctl) ==
  LET pushed == car.speed + (IF ctl \in {"forward", "both"} THEN acceleration ELSE 0)
                          - (IF ctl \in {"reverse", "both"} THEN acceleration ELSE 0)
      slowed == pushed - (IF pushed > 0 THEN friction ELSE 0)
      eased == slowed + (IF slowed < 0 THEN friction ELSE 0)
      s == IF Abs(eased) < friction THEN 0 ELSE eased
  IN [car EXCEPT !.speed = s, !.x = car.x + s]

\* #move without friction.
MoveFrictionless(car, ctl) ==
  LET pushed == car.speed + (IF ctl \in {"forward", "both"} THEN acceleration ELSE 0)
                          - (IF ctl \in {"reverse", "both"} THEN acceleration ELSE 0)
      capped == Max2(-(maxSpeed \div 2), Min2(maxSpeed, pushed))
  IN [car EXCEPT !.speed = capped, !.x = car.x + capped]

\* #move, for a car heading along the x axis, under the controls ctl:
\* forward, reverse, both of them or none.
Move(car, ctl) ==
  LET pushed == car.speed + (IF ctl \in {"forward", "both"} THEN acceleration ELSE 0)
                          - (IF ctl \in {"reverse", "both"} THEN acceleration ELSE 0)
      capped == Max2(-(maxSpeed \div 2), Min2(maxSpeed, pushed))
      slowed == capped - (IF capped > 0 THEN friction ELSE 0)
      eased == slowed + (IF slowed < 0 THEN friction ELSE 0)
      s == IF Abs(eased) < friction THEN 0 ELSE eased
  IN [car EXCEPT !.speed = s, !.x = car.x + s]

\* #createPolygon: the extent of the polygon around the car's centre.
CreatePolygon(car) ==
  Rect(car.x - CarHalf, car.x + CarHalf, -CarHalfWidth, CarHalfWidth)

\* world.isCarOnRoad(car): the centre lies in an envelope polygon, by the
\* crossing test of #pointInPolygon (x1 <= x < x2 and y1 <= y < y2).
IsCarOnRoad(car, envs) ==
  \E i \in DOMAIN envs :
    /\ envs[i].poly.x1 <= car.x /\ car.x < envs[i].poly.x2
    /\ envs[i].poly.y1 <= 0 /\ 0 < envs[i].poly.y2

\* polysIntersect(polygon, segment): the segment, with coordinates over
\* den, crosses a side of the polygon.
PolysIntersect(poly, sg) ==
  IF sg.x1 = sg.x2
  THEN /\ poly.x1 * sg.den <= sg.x1 /\ sg.x1 <= poly.x2 * sg.den
       /\ \E y \in {poly.y1, poly.y2} :
            Min2(sg.y1, sg.y2) <= y * sg.den /\ y * sg.den <= Max2(sg.y1, sg.y2)
  ELSE /\ poly.y1 * sg.den <= sg.y1 /\ sg.y1 <= poly.y2 * sg.den
       /\ \E x \in {poly.x1, poly.x2} :
            Min2(sg.x1, sg.x2) <= x * sg.den /\ x * sg.den <= Max2(sg.x1, sg.x2)

\* A collision segment: a Segment with its coordinates over den.
Over(sg, den) == [x1 |-> sg.x1, y1 |-> sg.y1, x2 |-> sg.x2, y2 |-> sg.y2, den |-> den]

\* #assessDamage with the road borders tested before the road.
AssessDamageBordersFirst(car, borders, envs) ==
  IF \E i \in DOMAIN borders : PolysIntersect(car.polygon, borders[i])
  THEN [car EXCEPT !.damaged = TRUE, !.damageType = "collision"]
  ELSE IF ~IsCarOnRoad(car, envs)
       THEN [car EXCEPT !.damaged = TRUE, !.damageType = "off-road"]
       ELSE [car EXCEPT !.damaged = FALSE, !.damageType = "none"]

\* #assessDamage(roadBorders, traffic, world) with no traffic: off the road
\* first, then the road borders.
AssessDamage(car, borders, envs) ==
  IF ~IsCarOnRoad(car, envs)
  THEN [car EXCEPT !.damaged = TRUE, !.damageType = "off-road"]
  ELSE IF \E i \in DOMAIN borders : PolysIntersect(car.polygon, borders[i])
       THEN [car EXCEPT !.damaged = TRUE, !.damageType = "collision"]
       ELSE [car EXCEPT !.damaged = FALSE, !.damageType = "none"]

\* update(roadBorders, traffic, world), the controls being ctl.
Update(car, borders, envs, ctl) ==
  LET moved == Move(car, ctl)
      shaped == [moved EXCEPT !.polygon = CreatePolygon(moved)]
  IN IF Undamaged(car) THEN AssessDamage(shaped, borders, envs) ELSE car

ControlSet == {"none", "forward", "reverse"}

\* getCollisionObjects(): the road borders, then the segments of the
\* building bases and of the tree bases.
GetCollisionObjects ==
  [i \in DOMAIN roadBorders |-> Over(roadBorders[i], 1)]
  \o Flatten([i \in DOMAIN buildings |->
       LET segs == PolySegments(buildings[i])
       IN [k \in DOMAIN segs |-> Over(segs[k], buildings[i].den)]])
  \o Flatten([i \in DOMAIN trees |->
       LET c == trees[i].center
           segs == PolySegments(Rect(c[1] - trees[i].size \div 2, c[1] + trees[i].size \div 2,
                                     c[2] - trees[i].size \div 2, c[2] + trees[i].size \div 2))
       IN [k \in DOMAIN segs |-> Over(segs[k], 1)]])

(***************************************************************************)
(* The pages that drive cars: AutoTrain (Auto.jsx), the training mode of   *)
(* CanvasEditor (CanvasEditor.jsx) and Manual (Manual.jsx).  One tick is   *)
(* one animation frame; the stuck timers count frames.                     *)
(***************************************************************************)
\* Population sizes: carSpawnLimit of AutoTrain (a slider) and N of
\* CanvasEditor (100), scaled.
carSpawnLimit == 2
TrainerN == 2
\* The spawn jitter (Math.random() - 0.5) * 10 takes the values
\* -Jitter .. Jitter - 1.
Jitter == 1
\* sleepTimer of AutoTrain, in frames.
sleepTimer == 2
\* The frame counts 240 and 2400 of CanvasEditor, scaled.
StagnationLimit == 4
GenerationTimeout == 6
\* The progress of 0.5 per frame a car must exceed, scaled with the speed.
ProgressStep == 1
\* A car slower than 0.1 (twice the friction) counts as not moving.
StuckSpeed == 2
\* The half size of an obstacle, and the most reset timers kept pending.
ObstacleHalf == 1
MaxTimers == 2
\* The generation counter is followed up to MaxGeneration.
MaxGeneration == 2
\* No entry for the car in carStuckTimersRef.
NoTimer == 0 - 1

JitterSetWide == (-Jitter - 1)..Jitter
JitterSet == (-Jitter)..(Jitter - 1)

\* The loop of generateCars(count), of initializeAITraining and of
\* restartTraining: count new cars at the Start pose, each with its jitter.
Populations(count) ==
  {[i \in 1..count |-> NewCar(StartX + j[i])] : j \in [1..count -> JitterSet]}

Distance(car) == Abs(car.x - TargetX)

\* calculateFitness(car) of AutoTrain, in tenths.
CalculateFitness(car) ==
  LET baseFitness == Max2(0, 1000 - Distance(car))
  IN IF Distance(car) < 20 THEN 10 * (baseFitness + 5000)
     ELSE IF car.damaged THEN baseFitness
     ELSE 10 * baseFitness

\* const roadBorders = world.borders || []  (World has no field borders)
WorldBorders == <<>>

\* const roadBorders = world.roadBorders || []
WorldRoadBorders == [i \in DOMAIN roadBorders |-> Over(roadBorders[i], 1)]

\* The stuck check of animate for one car and its timer entry t.
StuckCheck(car, t) ==
  IF Abs(car.speed) < StuckSpeed
  THEN IF t = NoTimer THEN <<car, 0>>
       ELSE IF t + 1 > sleepTimer
            THEN <<[car EXCEPT !.damaged = TRUE, !.damageType = "stuck"], NoTimer>>
            ELSE <<car, t + 1>>
  ELSE <<car, NoTimer>>

\* The body of cars.forEach in animate.
AutoCar(car, t, ctl) ==
  IF Undamaged(car)
  THEN StuckCheck(Update(car, WorldBorders, envelopes, ctl), t)
  ELSE <<car, t>>

\* The controls of the AI cars for one frame: those the brain set at the
\* end of the update before; all off for a car that was never updated, and
\* not read for a damaged car.
ControlChoices(cs) ==
  {ctl \in [DOMAIN cs -> ControlSet] :
     \A i \in DOMAIN cs : (cs[i].damaged \/ cs[i].polygon = NoPolygon) => ctl[i] = "none"}

untouchedByDrive ==
  <<graphVars, editorVars, derivedVars, dirty, buildVars, treeVars, page, obstacles,
    brainVars, otherVars>>

\* startTraining, from the button shown while no training runs.
StartTraining ==
  /\ page = "auto" /\ ~isTraining
  /\ cars' \in Populations(carSpawnLimit)
  /\ stuckTimers' = [i \in 1..carSpawnLimit |-> NoTimer]
  /\ isTraining' = TRUE /\ generation' = 1
  /\ lastOp' = "start"
  /\ UNCHANGED <<autoTimer, generationTimer, scored, resetTimers, bestBrain,
                 timerCars, untouchedByDrive>>

\* animate: one frame of AutoTrain.  When no car is left alive the frame
\* sets the timer for nextGeneration and requests no further frame; the
\* timer's closure holds the cars of the frame.
AutoTick ==
  /\ page = "auto" /\ isTraining /\ cars # <<>>
  /\ \E i \in DOMAIN cars : Undamaged(cars[i])
  /\ \E ctl \in ControlChoices(cars) :
       LET res == [i \in DOMAIN cars |-> AutoCar(cars[i], stuckTimers[i], ctl[i])]
       IN /\ cars' = [i \in DOMAIN cars |-> res[i][1]]
          /\ stuckTimers' = [i \in DOMAIN cars |-> res[i][2]]
  /\ IF \A i \in DOMAIN cars' : ~Undamaged(cars'[i])
     THEN /\ Len(timerCars) < MaxTimers
          /\ autoTimer' = TRUE /\ timerCars' = Append(timerCars, cars')
     ELSE UNCHANGED <<autoTimer, timerCars>>
  /\ scored' = <<>>
  /\ lastOp' = "tick"
  /\ UNCHANGED <<generationTimer, resetTimers, isTraining, generation, bestBrain,
                 untouchedByDrive>>

\* sortedCars[0] of [...cars].sort((a, b) => b.fitness - a.fitness)
BestScored(sc) ==
  CHOOSE b \in DOMAIN sc :
    \A i \in DOMAIN sc :
      \/ sc[i].fitness < sc[b].fitness
      \/ sc[i].fitness = sc[b].fitness /\ b <= i

\* nextGeneration, run by the oldest pending timer on the cars its closure
\* holds: they are scored, the best brain is saved, and a new population
\* is set.
NextGeneration ==
  /\ page = "auto" /\ autoTimer /\ timerCars # <<>>
  /\ Head(timerCars) # <<>>
  /\ scored' = [i \in DOMAIN Head(timerCars) |->
                 [Head(timerCars)[i] EXCEPT !.fitness = CalculateFitness(Head(timerCars)[i])]]
  /\ bestBrain' = BestScored(scored')
  /\ cars' \in Populations(carSpawnLimit)
  /\ generation' = Min2(generation + 1, MaxGeneration)
  /\ stuckTimers' = [i \in 1..carSpawnLimit |-> NoTimer]
  /\ timerCars' = Tail(timerCars)
  /\ autoTimer' = (Tail(timerCars) # <<>>)
  /\ lastOp' = "nextGeneration"
  /\ UNCHANGED <<generationTimer, resetTimers, isTraining, untouchedByDrive>>

\* stopTraining (and finishTraining, which calls it): the frame request is
\* cancelled; a pending timer is not.
StopTraining ==
  /\ page = "auto" /\ isTraining
  /\ isTraining' = FALSE /\ cars' = <<>> /\ generation' = 1
  /\ lastOp' = "stop"
  /\ UNCHANGED <<stuckTimers, autoTimer, generationTimer, scored, resetTimers,
                 bestBrain, timerCars, untouchedByDrive>>

\* after >= before - 0.5, where an undefined _lastD reads as Infinity.
NoProgress(before, after) ==
  IF after = NoD THEN TRUE
  ELSE IF before = NoD THEN FALSE
  ELSE after >= before - ProgressStep

\* The body of cars.forEach in the loop of CanvasEditor.  idle counts the
\* frames in a row in which the car did not come more than ProgressStep
\* closer to the Target.
Stagnation(car, updated) ==
  LET frames == IF NoProgress(car.lastD, updated.lastD)
                THEN car.noProgressFrames + 1 ELSE 0
  IN [updated EXCEPT
        !.noProgressFrames = frames,
        !.idle = IF Distance(car) - Distance(updated) > ProgressStep
                 THEN 0 ELSE car.idle + 1,
        !.damaged = @ \/ frames > StagnationLimit,
        !.damageType = IF frames > StagnationLimit THEN "stagnation" ELSE @]

CanvasCar(car, ctl) ==
  IF Undamaged(car)
  THEN Stagnation(car, Update(car, WorldRoadBorders, envelopes, ctl))
  ELSE car

\* The fitness the loop writes to the best live car, in tenths.
LiveFitness(car) ==
  IF Distance(car) < 50 THEN 10 * (2000 + (50 - Distance(car)) * 20)
  ELSE 10 * Max2(0, 1000 - Distance(car))

\* aliveCars.reduce((best, car) => car.fitness > best.fitness ? car : best)
BestAlive(cs) ==
  CHOOSE b \in DOMAIN cs :
    /\ Undamaged(cs[b])
    /\ \A i \in DOMAIN cs : Undamaged(cs[i]) =>
         \/ cs[i].fitness < cs[b].fitness
         \/ cs[i].fitness = cs[b].fitness /\ b <= i

\* The per-car part of checkTrainingProgress, fitness in tenths.
ProgressFitness(car) ==
  [car EXCEPT
     !.lastD = Distance(car),
     !.fitness = 10 * (Max2(0, 1000 - Distance(car)) + Abs(car.speed) * 5
                       - (IF car.damageType = "off-road" THEN 100 ELSE 0)
                       - (IF car.damageType = "collision" THEN 50 ELSE 0))]

\* initializeAITraining, run 100 ms after the training mode was chosen.
InitializeAITraining ==
  /\ page = "canvas" /\ cars = <<>>
  /\ cars' \in Populations(TrainerN)
  /\ lastOp' = "start"
  /\ UNCHANGED <<stuckTimers, autoTimer, generationTimer, scored, resetTimers, trainVars,
                 untouchedByDrive>>

\* One frame of the loop of CanvasEditor in training mode 'ai', with
\* checkTrainingProgress and restartTraining when the generation is over.
CanvasTick ==
  /\ page = "canvas"
  /\ \E ctl \in ControlChoices(cars) :
       LET stepped == [i \in DOMAIN cars |-> CanvasCar(cars[i], ctl[i])]
           alive == {i \in DOMAIN stepped : Undamaged(stepped[i])}
           ranked == IF alive = {} THEN stepped
                     ELSE [stepped EXCEPT ![BestAlive(stepped)].fitness =
                                             LiveFitness(stepped[BestAlive(stepped)])]
           timer == generationTimer + 1
       IN IF alive = {} \/ timer > GenerationTimeout
          THEN /\ generationTimer' = 0
               /\ IF cars = <<>>
                  THEN /\ cars' = cars /\ scored' = <<>> /\ lastOp' = "tick"
                  ELSE /\ scored' = [i \in DOMAIN ranked |-> ProgressFitness(ranked[i])]
                       /\ cars' \in Populations(TrainerN)
                       /\ lastOp' = "nextGeneration"
          ELSE /\ generationTimer' = timer
               /\ cars' = ranked /\ scored' = <<>> /\ lastOp' = "tick"
  /\ UNCHANGED <<stuckTimers, autoTimer, resetTimers, trainVars,
                 untouchedByDrive>>

\* initializeDriving of Manual: one car at the Start pose.
InitializeDriving ==
  /\ page = "manual" /\ cars = <<>>
  /\ cars' = <<NewCar(StartX)>>
  /\ lastOp' = "start"
  /\ UNCHANGED <<stuckTimers, autoTimer, generationTimer, scored, resetTimers, trainVars,
                 untouchedByDrive>>

\* One frame of the loop of Manual, the keys held being keys.
ManualTick(keys) ==
  /\ page = "manual" /\ cars # <<>>
  /\ IF Undamaged(cars[1])
     THEN /\ cars' = <<Update(cars[1], GetCollisionObjects, envelopes, keys)>>
          /\ resetTimers' = resetTimers
     ELSE /\ cars' = cars
          /\ IF cars[1].damageType = "off-road"
             THEN resetTimers < MaxTimers /\ resetTimers' = resetTimers + 1
             ELSE resetTimers' = resetTimers
  /\ lastOp' = "tick"
  /\ UNCHANGED <<stuckTimers, autoTimer, generationTimer, scored, trainVars,
                 untouchedByDrive>>

\* resetCarToStart, run by a timer of the loop.
ResetCarToStart ==
  /\ page = "manual" /\ cars # <<>> /\ resetTimers > 0
  /\ resetTimers' = resetTimers - 1
  /\ cars' = <<[cars[1] EXCEPT !.x = StartX, !.speed = 0, !.damaged = FALSE]>>
  /\ lastOp' = "reset"
  /\ UNCHANGED <<stuckTimers, autoTimer, generationTimer, scored, trainVars,
                 untouchedByDrive>>

\* An obstacle placed on the road, half way along it.
RoadObstacle ==
  Rect(RoadLen \div 2 - ObstacleHalf, RoadLen \div 2 + ObstacleHalf,
       -ObstacleHalf, ObstacleHalf)

\* A page has loaded a saved world (World.load) and generated it: one road
\* from 0 to RoadLen, with or without an obstacle on it.
InitDriveWorld ==
  /\ points = <<1, 2>>
  /\ px = [id \in PointIds |-> IF id = 2 THEN RoadLen ELSE 0]
  /\ segments = << <<1, 2>> >>
  /\ selected = NoPoint /\ hovered = NoPoint /\ dragging = FALSE /\ mouse = NoMouse
  /\ envelopes = RoadEnvelopes(<< <<0, RoadLen>> >>, roadWidth)
  /\ roadBorders = RoadBorders(envelopes)
  /\ buildings = GenerateBuildings(<< <<0, RoadLen>> >>)
  /\ trees = <<>>
  /\ laneGuides = LaneGuides(<< <<0, RoadLen>> >>)
  /\ lastSegmentCount = 1
  /\ lastOp = "new" /\ dirty = FALSE
  /\ InitBuild /\ InitTrees
  /\ obstacles = <<RoadObstacle>>
  /\ stuckTimers = <<>> /\ autoTimer = FALSE /\ generationTimer = 0
  /\ scored = <<>> /\ resetTimers = 0
  /\ isTraining = FALSE /\ generation = 1 /\ bestBrain = 0 /\ timerCars = <<>>

\* A page that drives cars, opened on that world, before it has any car.
InitDrive ==
  /\ InitDriveWorld /\ InitNoBrains /\ InitNoSensor /\ InitNoStore /\ InitNoLights
  /\ page \in {"auto", "canvas", "manual"}
  /\ cars = <<>>

NextDrive ==
  \/ StartTraining
  \/ AutoTick
  \/ NextGeneration
  \/ InitializeAITraining
  \/ CanvasTick
  \/ InitializeDriving
  \/ \E keys \in ControlSet : ManualTick(keys)
  \/ ResetCarToStart

SpecDrive == InitDrive /\ [][NextDrive]_vars


\* The same behaviour under the scheduling AutoTrain relies on: a frame that
\* was requested is run, and so is a timer that was set.
SpecAutoFair ==
  /\ SpecDrive
  /\ WF_vars(StartTraining) /\ WF_vars(AutoTick) /\ WF_vars(NextGeneration)

(***************************************************************************)
(* Properties of the pages that drive cars.                                *)
(***************************************************************************)
\* C5: Damaged is terminal within a training generation.  On AutoTrain and
\* in the training loop of CanvasEditor a frame leaves every damaged car
\* damaged and leaves its position, speed and polygon as they were, and
\* the frame or timer that ends the generation scores the car as it was.
C5_DamagedTerminal ==
  [][\A i \in DOMAIN cars :
       (page \in {"auto", "canvas"} /\ cars[i].damaged) =>
         /\ lastOp' = "tick" =>
              /\ i \in DOMAIN cars' /\ cars'[i].damaged
              /\ cars'[i].x = cars[i].x /\ cars'[i].speed = cars[i].speed
              /\ cars'[i].polygon = cars[i].polygon
         /\ lastOp' = "nextGeneration" =>
              /\ i \in DOMAIN scored' /\ scored'[i].damaged
              /\ scored'[i].x = cars[i].x /\ scored'[i].speed = cars[i].speed
              /\ scored'[i].polygon = cars[i].polygon]_vars

\* A car of CanvasEditor that was damaged in an earlier frame of the
\* generation than the last one: it stopped counting frames while the
\* generation timer went on.
C5_Witness ==
  /\ page = "canvas" /\ lastOp = "tick"
  /\ \E i \in DOMAIN cars :
       /\ cars[i].damaged /\ cars[i].speed # 0
       /\ cars[i].noProgressFrames < generationTimer

\* C6: an undamaged car whose polygon, after the update of a frame, overlaps
\* a road border of the generated world while its centre is on the road, is
\* damaged with damageType 'collision' after that frame, on every page.
C6_BorderCollision ==
  [][\A i \in DOMAIN cars :
       (/\ lastOp' = "tick" /\ ~cars[i].damaged /\ i \in DOMAIN cars'
        /\ IsCarOnRoad(cars'[i], envelopes)
        /\ \E k \in DOMAIN roadBorders :
             PolysIntersect(cars'[i].polygon, Over(roadBorders[k], 1)))
       => cars'[i].damaged /\ cars'[i].damageType = "collision"]_vars

\* C7: an undamaged car whose polygon, after the update of a frame, overlaps
\* the polygon of an obstacle of world.obstacles, is damaged after that
\* frame.
C7_ObstaclesAreHazards ==
  [][\A i \in DOMAIN cars : \A o \in DOMAIN obstacles :
       (/\ lastOp' = "tick" /\ ~cars[i].damaged /\ i \in DOMAIN cars'
        /\ \E k \in DOMAIN PolySegments(obstacles[o]) :
             PolysIntersect(cars'[i].polygon, Over(PolySegments(obstacles[o])[k], 1)))
       => cars'[i].damaged]_vars

\* C8: in the training loop of CanvasEditor a car is marked 'stagnation'
\* only after more than StagnationLimit frames in a row in which it came
\* no more than ProgressStep closer to the Target; this is stated of the
\* cars of the running generation and of the cars scored at its end.
C8_StagnationOnlyWithoutProgress ==
  page = "canvas" =>
    /\ \A i \in DOMAIN cars :
         cars[i].damageType = "stagnation" => cars[i].idle > StagnationLimit
    /\ \A i \in DOMAIN scored :
         scored[i].damageType = "stagnation" => scored[i].idle > StagnationLimit

\* The end of a generation, the new cars being spawned around pose: a
\* frame of AutoTrain that leaves no car alive sets the timer of
\* nextGeneration, a frame of CanvasEditor that leaves no car alive ends
\* the generation itself, and the end of a generation scores every car of
\* the population and installs a population of the configured size, of
\* undamaged cars with fitness 0 within the jitter of pose.
GenerationEnds(pose) ==
  /\ (page = "auto" /\ lastOp' = "tick" /\ \A i \in DOMAIN cars' : cars'[i].damaged)
       => autoTimer'
  /\ (page = "canvas" /\ cars # <<>> /\ lastOp' = "tick")
       => \E i \in DOMAIN cars' : ~cars'[i].damaged
  /\ lastOp' = "nextGeneration" =>
       /\ DOMAIN scored' = DOMAIN cars
       /\ \A i \in DOMAIN cars : cars[i].damaged => scored'[i].damaged
       /\ Len(cars') = (IF page = "auto" THEN carSpawnLimit ELSE TrainerN)
       /\ \A i \in DOMAIN cars' :
            /\ ~cars'[i].damaged /\ cars'[i].fitness = 0
            /\ Abs(cars'[i].x - pose) <= Jitter

\* C9 as stated: at the end of a generation every car is scored and the new
\* population has the configured size, its cars undamaged, with fitness 0
\* and within the jitter of the Start marking.
C9_NewPopulationAtStart == [][GenerationEnds(StartMarkX)]_vars

\* C9, amended: the same, the new cars being within the jitter of the spawn
\* position, which lies SpawnShift to the driving side of the Start marking.
C9_NewPopulationAtSpawn == [][GenerationEnds(StartX)]_vars

\* A generation has ended with a damaged car among the scored ones.
C9_Witness ==
  /\ lastOp = "nextGeneration"
  /\ \E i \in DOMAIN scored : scored[i].damaged
  /\ \A i \in DOMAIN cars : ~cars[i].damaged /\ cars[i].fitness = 0

\* C10: every training generation terminates.  For AutoTrain: a generation
\* that was started comes to its end, whatever the cars do.  (The loop of
\* CanvasEditor ends a generation when its frame counter passes
\* GenerationTimeout; AutoTrain keeps no such counter.)
C10_GenerationsEnd ==
  (page = "auto" /\ lastOp = "start") ~> (lastOp = "nextGeneration")

(***************************************************************************)
(* AutoTrain with its Stop button.                                         *)
(***************************************************************************)
InitStop ==
  /\ InitDrive
  /\ page = "auto"

\* The Start button is followed while no generation of an earlier training
\* has ended and no timer of one is pending; this bounds the behaviours
\* that are explored, each of which is a behaviour of the page.
FirstStartTraining ==
  /\ bestBrain = 0 /\ timerCars = <<>>
  /\ StartTraining

NextStop ==
  \/ FirstStartTraining
  \/ AutoTick
  \/ NextGeneration
  \/ StopTraining

SpecStop == InitStop /\ [][NextStop]_vars

\* C11: once stopTraining (or finishTraining) has run, and until training is
\* started again, the saved 'bestBrain' is not written, the generation
\* counter does not change and the population stays empty; this is stated
\* of every step taken while AutoTrain is not training, a step of a pending
\* next-generation timer included.
C11_StoppedStaysStopped ==
  [][(page = "auto" /\ ~isTraining /\ ~isTraining') =>
       /\ bestBrain' = bestBrain
       /\ generation' = generation
       /\ cars' = <<>>]_vars

(***************************************************************************)
(* The two fitness functions, applied to pairs of cars.                    *)
(***************************************************************************)
\* Distances to the Target on both sides of the thresholds of the fitness
\* functions (20: the bonus of AutoTrain; 1000: where the base reaches 0).
FitnessDistances == {0, 19, 20, 21, 999, 1001}
FitnessSpeeds == {-(maxSpeed \div 2), 0, maxSpeed}
DamageTypes == {"none", "off-road", "collision", "stuck", "stagnation"}

\* A car as a generation end finds it: d from the Target, with the speed it
\* had when it was last updated, damaged exactly when it has a damageType.
FitnessCar(d, sp, dt) ==
  [NewCar(TargetX - d) EXCEPT !.speed = sp, !.damaged = (dt # "none"),
                              !.damageType = dt]

InitFitness ==
  /\ InitDriveWorld /\ InitNoBrains /\ InitNoSensor /\ InitNoStore /\ InitNoLights
  /\ page \in {"auto", "canvas"}
  /\ cars \in {<<FitnessCar(d1, s1, t1), FitnessCar(d2, s2, t2)>> :
                 d1 \in FitnessDistances, s1 \in FitnessSpeeds, t1 \in DamageTypes,
                 d2 \in FitnessDistances, s2 \in FitnessSpeeds, t2 \in DamageTypes}

\* cars.forEach(car => { car.fitness = calculateFitness(car); })
ScoreAuto ==
  /\ page = "auto" /\ lastOp # "score"
  /\ scored' = [i \in DOMAIN cars |-> [cars[i] EXCEPT !.fitness = CalculateFitness(cars[i])]]
  /\ lastOp' = "score"
  /\ UNCHANGED <<cars, stuckTimers, autoTimer, generationTimer, resetTimers, trainVars,
                 untouchedByDrive>>

\* The cars.forEach of checkTrainingProgress.
ScoreCanvas ==
  /\ page = "canvas" /\ lastOp # "score"
  /\ scored' = [i \in DOMAIN cars |-> ProgressFitness(cars[i])]
  /\ lastOp' = "score"
  /\ UNCHANGED <<cars, stuckTimers, autoTimer, generationTimer, resetTimers, trainVars,
                 untouchedByDrive>>

NextFitness ==
  \/ ScoreAuto
  \/ ScoreCanvas

SpecFitness == InitFitness /\ [][NextFitness]_vars

\* C12: of two cars scored at a generation end that are in the same damage
\* state (both undamaged, or both damaged with the same damageType), the one
\* nearer to the Target has no lower fitness; and a damaged car has no
\* higher fitness than an undamaged car at the same position.  Stated of
\* calculateFitness of AutoTrain and of checkTrainingProgress of CanvasEditor.
C12_FitnessRewardsProgress ==
  lastOp = "score" =>
    \A i \in DOMAIN scored : \A j \in DOMAIN scored :
      /\ (/\ scored[i].damageType = scored[j].damageType
          /\ Distance(scored[i]) <= Distance(scored[j]))
           => scored[i].fitness >= scored[j].fitness
      /\ (scored[i].damaged /\ ~scored[j].damaged /\ scored[i].x = scored[j].x)
           => scored[i].fitness <= scored[j].fitness

(***************************************************************************)
(* The controllers of the populations: how AutoTrain, the training mode of *)
(* CanvasEditor and CitySimulation make, copy, mutate, save and load       *)
(* brains.  The frames of a generation are followed in SpecDrive; here     *)
(* they appear by their outcome.                                           *)
(***************************************************************************)
\* Bounds of the genetic algorithms, scaled to populations of BrainN cars:
\* the index below which nextGeneration mutates lightly (5), the elite
\* count (topK, at least 5) and the newcomer count (at least 5) of
\* restartTraining, and carCount of CitySimulation (20).
LightLimit == 2
TopK == 1
Newcomers == 1
carCount == 2

\* new NeuralNetwork([n, 6, 4]): random weights
NewBrain(n, g) == [cls |-> "NeuralNetwork", inputs |-> n, genome |-> g]

\* JSON.stringify(brain), JSON.parse(text): the text keeps the numbers and
\* not the class.
Stringify(b) == [kind |-> "brain", inputs |-> b.inputs, genome |-> b.genome]
Parse(t) == [cls |-> "Object", inputs |-> t.inputs, genome |-> t.genome]

\* Two brains with the same numbers.
ValueEq(a, b) == a.inputs = b.inputs /\ a.genome = b.genome

\* A new object gets the first unused reference.
Alloc(h) == CHOOSE r \in Refs : h[r] = Free /\ \A q \in Refs : h[q] = Free => r <= q
Put(h, r, v) == [heap |-> [h EXCEPT ![r] = v], ref |-> r]
Fresh(h, n, g) == Put(h, Alloc(h), NewBrain(n, g))

\* Objects no car and no variable refers to are gone.
Collect(h, live) == [r \in Refs |-> IF r \in live THEN h[r] ELSE Free]

\* (the assignment of the object itself, for comparison)
SameObject(h, src) == [heap |-> h, ref |-> src]
\* JSON.parse(JSON.stringify(h[src])): a new object with the same numbers
DeepCopy(h, src) == Put(h, Alloc(h), Parse(Stringify(h[src])))

\* NeuralNetwork.mutate(network, amount), amount > 0: in place; each weight
\* is changed with probability amount, so the numbers may all stay.
Mutate(h, r, g) == [h EXCEPT ![r] = [@ EXCEPT !.genome = g]]
MutateCopy(hr, g) == [heap |-> Mutate(hr.heap, hr.ref, g), ref |-> hr.ref]

\* What is done for the car of index i (from 0) of a new population.
\* (Without the branch i === 0, for comparison.)
AutoRuleNoElite(i, n) == IF i < LightLimit THEN "mutate" ELSE "mutateOrRandom"
\* nextGeneration of AutoTrain, of n cars:
AutoRule(i, n) ==
  IF i = 0 THEN "keep"
  ELSE IF i < LightLimit THEN "mutate"
  ELSE IF 2 * i < n THEN "mutate"
  ELSE "mutateOrRandom"

\* restartTraining of CanvasEditor:
RestartRule(i, n) ==
  IF i < TopK THEN "keep"
  ELSE IF i < TopK + Newcomers THEN "random"
  ELSE "mutate"

\* The draws of Math.random for one car: the outcome of a mutation or the
\* weights of a random brain, and the choice between the two.
Draws == [g : Genomes, fresh : BOOLEAN]

\* The brain of one new car from the brain object parent.
Child(h, parent, rule, draw) ==
  IF rule = "keep" THEN DeepCopy(h, parent)
  ELSE IF rule = "random" \/ (rule = "mutateOrRandom" /\ draw.fresh)
       THEN Fresh(h, rayCount, draw.g)
       ELSE MutateCopy(DeepCopy(h, parent), draw.g)

ExtendWith(acc, hr) == [heap |-> hr.heap, brains |-> Append(acc.brains, hr.ref)]

\* [...cars].sort((a, b) => b.fitness - a.fitness), as indices
RECURSIVE SortedCars(_, _)
SortedCars(sc, left) ==
  IF left = {} THEN <<>>
  ELSE LET b == CHOOSE k \in left :
                  \A i \in left : \/ sc[i].fitness < sc[k].fitness
                                  \/ sc[i].fitness = sc[k].fitness /\ k <= i
       IN <<b>> \o SortedCars(sc, left \ {b})

\* parents.filter(p => p.brain && ... p.brain.levels[0].inputs.length === 5)
ValidParents(h, bs, parents) ==
  SelectSeq(parents, LAMBDA k : bs[k] # NoRef /\ h[bs[k]].inputs = 5)

\* The loop of nextGeneration over newCars, from the brain object best.
RECURSIVE AutoBreed(_, _, _, _)
AutoBreed(acc, i, best, draws) ==
  IF i >= BrainN THEN acc
  ELSE CHOOSE out \in
         {AutoBreed(next, i + 1, best, draws) :
            next \in {ExtendWith(acc, Child(acc.heap, best, AutoRule(i, BrainN),
                                            draws[i + 1]))}} : TRUE

\* The loop of restartTraining, from the brain objects of validParents.
RECURSIVE RestartBreed(_, _, _, _)
RestartBreed(acc, i, valid, draws) ==
  IF i >= BrainN THEN acc
  ELSE CHOOSE out \in
         {RestartBreed(next, i + 1, valid, draws) :
            next \in {ExtendWith(acc,
                        IF valid = <<>> THEN Fresh(acc.heap, 5, draws[i + 1].g)
                        ELSE Child(acc.heap, valid[(i % Len(valid)) + 1],
                                   RestartRule(i, BrainN), draws[i + 1]))}} : TRUE

\* The loop of generateCars: the first car takes the saved brain, or a
\* random one; every other car a mutated copy of the first car's.
RECURSIVE GenerateBreed(_, _, _)
GenerateBreed(acc, i, draws) ==
  IF i >= BrainN THEN acc
  ELSE CHOOSE out \in
         {GenerateBreed(next, i + 1, draws) :
            next \in {ExtendWith(acc,
                        IF i = 0
                        THEN IF localStorage["bestBrain"] # NoItem
                             THEN Put(acc.heap, Alloc(acc.heap),
                                      Parse(localStorage["bestBrain"]))
                             ELSE Fresh(acc.heap, rayCount, draws[1].g)
                        ELSE MutateCopy(DeepCopy(acc.heap, acc.brains[1]),
                                        draws[i + 1].g))}} : TRUE

\* The loop of startSimulation over spawnNewCar(trainedBrain).
RECURSIVE SpawnBreed(_, _, _, _)
SpawnBreed(acc, i, trained, draws) ==
  IF i >= carCount THEN acc
  ELSE CHOOSE out \in
         {SpawnBreed(next, i + 1, trained, draws) :
            next \in {ExtendWith(acc, MutateCopy(DeepCopy(acc.heap, trained),
                                                 draws[i + 1].g))}} : TRUE

\* Where the cars of a generation can be when it ends, and how.
BrainXs == {StartX, StartX + GridStep}
EndedCars ==
  {[NewCar(x) EXCEPT !.damaged = d, !.damageType = IF d THEN "collision" ELSE "none"] :
     x \in BrainXs, d \in BOOLEAN}

\* The cars of a new population, at the spawn position (their jitter,
\* followed in SpecDrive, plays no part in what becomes of the brains).
StartLine(n) == [i \in 1..n |-> NewCar(StartX)]

\* The router shows a page; the state of the page left is dropped,
\* localStorage stays.
OpenPage ==
  /\ \E p \in {"auto", "canvas", "city"} : page' = p
  /\ cars' = <<>> /\ brains' = <<>> /\ heap' = EmptyHeap /\ trainedBrain' = NoRef
  /\ scored' = <<>>
  /\ lastOp' = "open"
  /\ UNCHANGED <<localStorage, obstacles, stuckTimers, autoTimer, generationTimer,
                 resetTimers, trainVars, graphVars, editorVars, derivedVars, dirty,
                 buildVars, treeVars, otherVars>>

\* startTraining of AutoTrain: generateCars(carSpawnLimit)
BrainStartTraining ==
  /\ page = "auto" /\ cars = <<>>
  /\ cars' = StartLine(BrainN)
  /\ \E draws \in [1..BrainN -> Draws] :
       \E made \in {GenerateBreed([heap |-> EmptyHeap, brains |-> <<>>], 0, draws)} :
          heap' = Collect(made.heap, Range(made.brains)) /\ brains' = made.brains
  /\ lastOp' = "start"
  /\ UNCHANGED <<trainedBrain, localStorage, scored, obstacles, stuckTimers, autoTimer,
                 generationTimer, resetTimers, trainVars, page, graphVars, editorVars,
                 derivedVars, dirty, buildVars, treeVars, otherVars>>

\* initializeAITraining of CanvasEditor: a random brain for every car
BrainInitializeAITraining ==
  /\ page = "canvas" /\ cars = <<>>
  /\ cars' = StartLine(BrainN)
  /\ \E gs \in [1..BrainN -> Genomes] :
       /\ heap' = [r \in Refs |-> IF r <= BrainN THEN NewBrain(5, gs[r]) ELSE Free]
       /\ brains' = [i \in 1..BrainN |-> i]
  /\ lastOp' = "start"
  /\ UNCHANGED <<trainedBrain, localStorage, scored, obstacles, stuckTimers, autoTimer,
                 generationTimer, resetTimers, trainVars, page, graphVars, editorVars,
                 derivedVars, dirty, buildVars, treeVars, otherVars>>

\* The frames of one generation, by their outcome: every car has driven
\* somewhere and, on AutoTrain, is damaged.
RunGeneration ==
  /\ page \in {"auto", "canvas"} /\ lastOp \in {"start", "nextGeneration"}
  /\ cars' \in [DOMAIN cars -> EndedCars]
  /\ page = "auto" => \A i \in DOMAIN cars' : cars'[i].damaged
  /\ scored' = <<>>
  /\ lastOp' = "run"
  /\ UNCHANGED <<brainVars, obstacles, stuckTimers, autoTimer, generationTimer,
                 resetTimers, trainVars, page, graphVars, editorVars, derivedVars, dirty,
                 buildVars, treeVars, otherVars>>

\* nextGeneration of AutoTrain: the cars are scored, the best brain is
\* saved, and every brain generateCars gave the new cars is replaced by a
\* copy of the best brain or by a random one.
BrainNextGeneration ==
  /\ page = "auto" /\ lastOp = "run"
  /\ scored' = [i \in DOMAIN cars |-> [cars[i] EXCEPT !.fitness = CalculateFitness(cars[i])]]
  /\ localStorage' = [localStorage EXCEPT
                        !["bestBrain"] = Stringify(heap[brains[BestScored(scored')]])]
  /\ cars' = StartLine(BrainN)
  /\ \E draws \in [1..BrainN -> Draws] :
       \E made \in {AutoBreed([heap |-> Collect(heap, Range(brains)), brains |-> <<>>], 0,
                               brains[BestScored(scored')], draws)} :
          heap' = Collect(made.heap, Range(made.brains)) /\ brains' = made.brains
  /\ lastOp' = "nextGeneration"
  /\ UNCHANGED <<trainedBrain, obstacles, stuckTimers, autoTimer, generationTimer,
                 resetTimers, trainVars, page, graphVars, editorVars, derivedVars, dirty,
                 buildVars, treeVars, otherVars>>

\* checkTrainingProgress and restartTraining of CanvasEditor
BrainRestartTraining ==
  /\ page = "canvas" /\ lastOp = "run"
  /\ scored' = [i \in DOMAIN cars |-> ProgressFitness(cars[i])]
  /\ cars' = StartLine(BrainN)
  /\ \E valid \in {ValidParents(heap, brains,
                       SubSeq(SortedCars(scored', DOMAIN scored'), 1, TopK))} :
     \E draws \in [1..BrainN -> [g : Genomes, fresh : {FALSE}]] :
     \E made \in {RestartBreed([heap |-> Collect(heap, Range(brains)), brains |-> <<>>], 0,
                                [k \in DOMAIN valid |-> brains[valid[k]]], draws)} :
       heap' = Collect(made.heap, Range(made.brains)) /\ brains' = made.brains
  /\ lastOp' = "nextGeneration"
  /\ UNCHANGED <<trainedBrain, localStorage, obstacles, stuckTimers, autoTimer,
                 generationTimer, resetTimers, trainVars, page, graphVars, editorVars,
                 derivedVars, dirty, buildVars, treeVars, otherVars>>

\* deleteBrains of AutoTrain
DeleteBrains ==
  /\ page = "auto" /\ localStorage["bestBrain"] # NoItem
  /\ localStorage' = [localStorage EXCEPT !["bestBrain"] = NoItem]
  /\ lastOp' = "delete"
  /\ UNCHANGED <<heap, brains, trainedBrain, cars, scored, obstacles, stuckTimers,
                 autoTimer, generationTimer, resetTimers, trainVars, page, graphVars,
                 editorVars, derivedVars, dirty, buildVars, treeVars, otherVars>>

\* loadTrainedBrain: JSON.parse(localStorage.getItem('bestBrain.ai')).brain
LoadTrainedBrain(h) ==
  IF localStorage["bestBrain.ai"] = NoItem THEN [heap |-> h, ref |-> NoRef]
  ELSE Put(h, Alloc(h), Parse(localStorage["bestBrain.ai"].brain))

\* startSimulation of CitySimulation: without a trained brain it alerts
\* and spawns nothing.
StartSimulation ==
  /\ page = "city" /\ cars = <<>>
  /\ trainedBrain' = LoadTrainedBrain(EmptyHeap).ref
  /\ IF trainedBrain' = NoRef
     THEN UNCHANGED <<heap, brains, cars>>
     ELSE /\ cars' = StartLine(carCount)
          /\ \E draws \in [1..carCount -> Draws] :
               \E made \in {SpawnBreed([heap |-> LoadTrainedBrain(EmptyHeap).heap,
                                         brains |-> <<>>], 0, trainedBrain', draws)} :
                  /\ heap' = Collect(made.heap, Range(made.brains) \cup {trainedBrain'})
                  /\ brains' = made.brains
  /\ lastOp' = "simulate"
  /\ UNCHANGED <<localStorage, scored, obstacles, stuckTimers, autoTimer, generationTimer,
                 resetTimers, trainVars, page, graphVars, editorVars, derivedVars, dirty,
                 buildVars, treeVars, otherVars>>

\* The loop of CitySimulation replaces a car that is damaged or has arrived
\* by spawnNewCar(trainedBrain).
Respawn ==
  /\ page = "city" /\ cars # <<>>
  /\ \E i \in DOMAIN cars : \E g \in Genomes :
       \E made \in {MutateCopy(DeepCopy(heap, trainedBrain), g)} :
          /\ brains' = [brains EXCEPT ![i] = made.ref]
          /\ heap' = Collect(made.heap, {trainedBrain} \cup Range(brains'))
  /\ lastOp' = "respawn"
  /\ UNCHANGED <<cars, trainedBrain, localStorage, scored, obstacles, stuckTimers,
                 autoTimer, generationTimer, resetTimers, trainVars, page, graphVars,
                 editorVars, derivedVars, dirty, buildVars, treeVars, otherVars>>

\* A browser in which nothing was stored, or in which 'bestBrain.ai' holds
\* a brain with the generation and fitness it was saved at (no page of
\* this repository writes that key).
InitBrains ==
  /\ InitDriveWorld /\ InitNoSensor /\ InitNoStore /\ InitNoLights
  /\ page \in {"auto", "canvas", "city"}
  /\ cars = <<>> /\ heap = EmptyHeap /\ brains = <<>> /\ trainedBrain = NoRef
  /\ localStorage \in
       {EmptyStorage,
        [EmptyStorage EXCEPT !["bestBrain.ai"] =
           [kind |-> "trained", generation |-> 1, fitness |-> 0,
            brain |-> Stringify(NewBrain(5, MaxGenome))]]}

NextBrains ==
  \/ OpenPage
  \/ BrainStartTraining
  \/ BrainInitializeAITraining
  \/ RunGeneration
  \/ BrainNextGeneration
  \/ BrainRestartTraining
  \/ DeleteBrains
  \/ StartSimulation
  \/ Respawn

SpecBrains == InitBrains /\ [][NextBrains]_vars

(***************************************************************************)
(* Properties of the controllers.                                          *)
(***************************************************************************)
\* C13: elitism.  Every step that ends a generation (nextGeneration of
\* AutoTrain, restartTraining of CanvasEditor) leaves a population with a
\* car whose brain has the numbers of the brain of a car of highest fitness
\* of the generation that ended.
C13_Elitism ==
  [][lastOp' = "nextGeneration" =>
       \E b \in DOMAIN scored' :
         /\ \A k \in DOMAIN scored' : scored'[k].fitness <= scored'[b].fitness
         /\ \E i \in DOMAIN brains' : ValueEq(heap'[brains'[i]], heap[brains[b]])]_vars

\* A generation of CanvasEditor has ended: the new population has a copied
\* brain and a brain with other numbers than the first car's.
C13_Witness ==
  /\ page = "canvas" /\ lastOp = "nextGeneration"
  /\ \E b \in DOMAIN scored : \E k \in DOMAIN scored : scored[k].fitness < scored[b].fitness
  /\ heap[brains[1]].cls = "Object"
  /\ \E j \in DOMAIN brains : heap[brains[j]].genome # heap[brains[1]].genome

\* C14: controllers are never shared.  In every population built by
\* generateCars, nextGeneration, restartTraining or spawnNewCar no two cars
\* hold the same brain object and no car holds an object of the parents
\* (the cars of the generation that ended, or the trained brain of
\* CitySimulation); and a respawn, which mutates the new car's brain,
\* leaves the trained brain and the brains of the other cars as they were.
C14_ControllersNotShared ==
  [][lastOp' \in {"start", "nextGeneration", "simulate", "respawn"} =>
       /\ \A i \in DOMAIN brains' : \A j \in DOMAIN brains' :
            i # j => brains'[i] # brains'[j]
       /\ lastOp' = "nextGeneration" => Range(brains') \cap Range(brains) = {}
       /\ lastOp' \in {"simulate", "respawn"} =>
            /\ trainedBrain' \notin Range(brains')
            /\ trainedBrain' # NoRef =>
                 ValueEq(heap'[trainedBrain'], Parse(localStorage["bestBrain.ai"].brain))
       /\ lastOp' = "respawn" =>
            \A j \in DOMAIN brains :
              brains'[j] = brains[j] => heap'[brains'[j]] = heap[brains[j]]]_vars

\* A generation of AutoTrain has ended and two cars of the new population
\* hold two objects with the same numbers.
C14_Witness ==
  /\ page = "auto" /\ lastOp = "nextGeneration"
  /\ \E i \in DOMAIN brains : \E j \in DOMAIN brains :
       brains[i] # brains[j] /\ heap[brains[i]] = heap[brains[j]]

\* C16: once the trainer has saved a best brain, a consumer of the saved
\* brain reads a brain with the numbers of the one last saved: the first car
\* of generateCars when AutoTrain starts training, and the trained brain of
\* CitySimulation when the simulation is started.
C16_SavedBrainIsLoaded ==
  localStorage["bestBrain"] # NoItem =>
    /\ (page = "auto" /\ lastOp = "start") =>
         ValueEq(heap[brains[1]], Parse(localStorage["bestBrain"]))
    /\ (page = "city" /\ lastOp = "simulate") =>
         /\ trainedBrain # NoRef
         /\ ValueEq(heap[trainedBrain], Parse(localStorage["bestBrain"]))

(***************************************************************************)
(* The sensor readings and what Car.update makes of them.  An offset is    *)
(* the fraction of the ray at which the nearest hit lies, followed in      *)
(* steps of 1/OffsetDen; an input is followed as a fraction num/den.       *)
(***************************************************************************)
RayN == 3
OffsetDen == 4
\* this.rayLength = opts.rayLength ?? 150
rayLength == 150
\* #getReading returns null when the ray touches nothing
NoReading == 0 - 1
Readings == {NoReading} \cup (0..OffsetDen)

\* s => s == null ? 1.0 : (1.0 - s.offset / this.sensor.rayLength)
Normalize(s) ==
  IF s = NoReading THEN [num |-> 1, den |-> 1]
  ELSE [num |-> OffsetDen * rayLength - s, den |-> OffsetDen * rayLength]

\* s => s == null ? 0 : 1 - s.offset   (the other Car.update)
NormalizeVariant(s) ==
  IF s = NoReading THEN [num |-> 0, den |-> 1]
  ELSE [num |-> OffsetDen - s, den |-> OffsetDen]

\* a < b for two fractions
Less(a, b) == a.num * b.den < b.num * a.den

\* sensor.update has filled the readings of the rays.
InitSensor ==
  /\ InitDriveWorld /\ InitNoBrains /\ InitNoStore /\ InitNoLights
  /\ page = "auto" /\ cars = <<>>
  /\ readings \in [1..RayN -> Readings]
  /\ inputs = <<>>

\* Car.update of car.js, from the readings to the call of feedForward
Sense ==
  /\ lastOp = "new"
  /\ inputs' = [i \in DOMAIN readings |-> Normalize(readings[i])]
  /\ lastOp' = "sense"
  /\ UNCHANGED <<readings, graphVars, editorVars, derivedVars, dirty, buildVars, treeVars,
                 page, cars, obstacles, stuckTimers, autoTimer, generationTimer, scored,
                 resetTimers, trainVars, brainVars, storeVars, lightVars>>

\* Car.update of the other car.js
SenseVariant ==
  /\ lastOp = "new"
  /\ inputs' = [i \in DOMAIN readings |-> NormalizeVariant(readings[i])]
  /\ lastOp' = "sense"
  /\ UNCHANGED <<readings, graphVars, editorVars, derivedVars, dirty, buildVars, treeVars,
                 page, cars, obstacles, stuckTimers, autoTimer, generationTimer, scored,
                 resetTimers, trainVars, brainVars, storeVars, lightVars>>

NextSensor ==
  \/ Sense
  \/ SenseVariant

SpecSensor == InitSensor /\ [][NextSensor]_vars

\* C15: every input given to feedForward is a number in [0,1]; a ray with
\* no hit gives 1; of two rays with a hit the one with the nearer hit gives
\* the smaller input, and a hit at the car itself gives 0.
C15_InputsNormalized ==
  lastOp = "sense" =>
    \A i \in DOMAIN inputs :
      /\ 0 <= inputs[i].num /\ inputs[i].num <= inputs[i].den
      /\ readings[i] = NoReading => inputs[i].num = inputs[i].den
      /\ readings[i] = 0 => inputs[i].num = 0
      /\ \A j \in DOMAIN inputs :
           (readings[i] # NoReading /\ readings[j] # NoReading /\ readings[i] < readings[j])
             => Less(inputs[i], inputs[j])


(***************************************************************************)
(* The world snapshot in localStorage: the save handlers of the World      *)
(* Builder and of WorldProvider, the Toggle Driving Side button, and the   *)
(* loaders of the pages.                                                   *)
(***************************************************************************)
ParamNames == {"roadWidth", "roadRoundness", "buildingWidth", "buildingMinLength",
               "spacing", "treeSize", "drivingSide"}
\* The parameter fields handleSaveWorld and handleSaveWorldNormal write.
SavedParamNames == {"roadWidth", "roadRoundness", "buildingWidth",
                    "buildingMinLength", "spacing", "treeSize"}
Sides == {"left", "right"}
Loaders == {"World", "auto", "manual", "builder", "provider", "city"}

untouchedByStore ==
  <<editorVars, dirty, buildVars, treeVars, cars, obstacles, stuckTimers,
    autoTimer, generationTimer, scored, resetTimers, trainVars, heap, brains,
    trainedBrain, sensorVars, lightVars>>

WorldItem == localStorage["virtualWorld"]
Store(item) == localStorage' = [localStorage EXCEPT !["virtualWorld"] = item]

\* Items of localStorage that are no world record: a text that JSON.parse
\* rejects, the text of a JSON number, and the text of an object with a
\* marking that has no center, on which World.loadMarking throws.
BadText == [kind |-> "text"]
JsonNumber == [kind |-> "number"]
BrokenRecord == [kind |-> "broken"]

EmptyDerived == [envelopes |-> <<>>, roadBorders |-> <<>>, buildings |-> <<>>,
                 trees |-> <<>>, laneGuides |-> <<>>]

\* JSON.stringify(graph): the points by their coordinates, in order, and
\* the segments by the coordinates of their ends.
GraphJson ==
  [xs |-> [i \in DOMAIN points |-> px[points[i]]], segs |-> SegCoords]
EmptyGraph == [xs |-> <<>>, segs |-> <<>>]

\* Graph.load: new points from the stored coordinates, and every segment
\* between the first points that equal its stored ends.
FindPoint(g, x) ==
  CHOOSE i \in DOMAIN g.xs : g.xs[i] = x /\ \A j \in 1..(i - 1) : g.xs[j] # x
LoadedPoints(g) == [i \in DOMAIN g.xs |-> i]
LoadedPx(g) == [id \in PointIds |-> IF id \in DOMAIN g.xs THEN g.xs[id] ELSE 0]
LoadedSegments(g) ==
  [k \in DOMAIN g.segs |-> <<FindPoint(g, g.segs[k][1]), FindPoint(g, g.segs[k][2])>>]

\* The record of handleSaveWorld; optimized is dataSizeKB > 8000.  The full
\* record has no isOptimized field.
BuilderRecord(optimized) ==
  [kind |-> "object", graph |-> GraphJson,
   params |-> [n \in SavedParamNames |-> params[n]],
   hasDerived |-> TRUE,
   derived |-> IF optimized THEN EmptyDerived ELSE Derived,
   isOptimized |-> optimized]

\* The record of WorldProvider.saveWorld: graph, markings and timestamp.
ProviderRecord ==
  [kind |-> "object", graph |-> GraphJson,
   params |-> [n \in {} |-> 0],
   hasDerived |-> FALSE, derived |-> EmptyDerived, isOptimized |-> FALSE]

\* obj.drivingSide = side, on the parsed record.
Patched(item, side) ==
  [item EXCEPT !.params = [n \in (DOMAIN item.params) \cup {"drivingSide"} |->
                             IF n = "drivingSide" THEN side ELSE item.params[n]]]

\* world.x = info.x || default, for every parameter.
LoadedParams(info) ==
  [n \in ParamNames |->
     IF n \in DOMAIN info.params THEN info.params[n] ELSE WorldParams("left")[n]]

\* The derived collections World.load builds from the record, and the
\* lastSegmentCount the constructor has set.
LoadedDerived(info) ==
  IF info.isOptimized
  THEN [envelopes |-> <<>>, roadBorders |-> <<>>, buildings |-> <<>>,
        trees |-> <<>>, laneGuides |-> <<>>, lastSegmentCount |-> 0]
  ELSE [envelopes |-> info.derived.envelopes,
        roadBorders |-> info.derived.roadBorders,
        buildings |-> info.derived.buildings,
        trees |-> [i \in DOMAIN info.derived.trees |->
                     Tree(info.derived.trees[i].center, LoadedParams(info).treeSize)],
        laneGuides |-> info.derived.laneGuides,
        lastSegmentCount |-> 0]

\* The random tree positions are followed within this distance of x = 0.
TreeSpan == 1

\* The worlds generate() can leave when it regenerates over these segments.
GeneratedFrom(segCoords) ==
  LET envs == RoadEnvelopes(segCoords, roadWidth)
      borders == RoadBorders(envs)
      bases == GenerateBuildings(segCoords)
  IN {[envelopes |-> envs, roadBorders |-> borders, buildings |-> bases,
       trees |-> t, laneGuides |-> LaneGuides(segCoords),
       lastSegmentCount |-> Len(segCoords)] :
        t \in {l \in GenerateTrees(borders, bases, envs) :
                 \A i \in DOMAIN l : Abs(l[i].center[1]) <= TreeSpan}}

\* generate() with an early return on every call.
SkipsAlways(segCoords, d) == TRUE

\* if (currentSegmentCount === this.lastSegmentCount && this.envelopes.length > 0) return;
SkipsOn(segCoords, d) ==
  Len(segCoords) = d.lastSegmentCount /\ Len(d.envelopes) > 0

\* generate() on a world with these segments and these derived collections.
GenerateOn(segCoords, d) ==
  IF SkipsOn(segCoords, d) THEN {d} ELSE GeneratedFrom(segCoords)

\* The world World.load(info) returns: it calls generate() itself when the
\* record is optimized and has a segment.
LoadedWorlds(info) ==
  IF info.isOptimized /\ Len(info.graph.segs) > 0
  THEN GenerateOn(info.graph.segs, LoadedDerived(info))
  ELSE {LoadedDerived(info)}

SetDerived(d) ==
  /\ envelopes' = d.envelopes /\ roadBorders' = d.roadBorders
  /\ buildings' = d.buildings /\ trees' = d.trees
  /\ laneGuides' = d.laneGuides /\ lastSegmentCount' = d.lastSegmentCount

SetGraph(g) ==
  /\ points' = LoadedPoints(g) /\ px' = LoadedPx(g)
  /\ segments' = LoadedSegments(g)

\* worldRef.current = new World()
NewWorld ==
  /\ SetGraph(EmptyGraph)
  /\ SetDerived([envelopes |-> <<>>, roadBorders |-> <<>>, buildings |-> <<>>,
                 trees |-> <<>>, laneGuides |-> <<>>, lastSegmentCount |-> 0])
  /\ params' = WorldParams("left")

EmptyWorld ==
  /\ points = <<>> /\ segments = <<>> /\ Derived = EmptyDerived

\* The loaders that test the parsed value with
\* worldData && typeof worldData === 'object' before World.load.
Validates(loader) == loader \in {"World", "auto", "manual", "builder", "city"}
\* The loaders whose catch removes the item.
RemovesOnError(loader) == loader \in {"World", "manual", "builder"}
\* The loaders that call generate() on the world they loaded.
GeneratesOnLoad(loader) == loader \in {"auto", "city"}

\* A page opens and runs its loader on the item of localStorage.
\*  - a world record: World.load, and generate() in AutoTrain and
\*    CitySimulation;
\*  - a record on which World.load throws, or a text JSON.parse rejects:
\*    the catch, which in CitySimulation only logs;
\*  - a JSON number: the else branch of the loaders that validate, none in
\*    CitySimulation; WorldProvider.loadWorld passes it to World.load, which
\*    returns a world of defaults;
\*  - no item: new World(), and nothing in CitySimulation.
\* Where CitySimulation assigns no world, worldRef.current stays null:
\* holdsWorld is FALSE and the fields of the world stand at their empty
\* values.
LoadWorld(loader) ==
  /\ page' = loader
  /\ IF WorldItem.kind = "object"
     THEN /\ SetGraph(WorldItem.graph)
          /\ params' = LoadedParams(WorldItem)
          /\ \E d \in LoadedWorlds(WorldItem) :
               IF GeneratesOnLoad(loader)
               THEN \E e \in GenerateOn(WorldItem.graph.segs, d) : SetDerived(e)
               ELSE SetDerived(d)
          /\ holdsWorld' = TRUE /\ worldLoaded' = TRUE
          /\ lastOp' = IF GeneratesOnLoad(loader) THEN "loadGenerate" ELSE "load"
          /\ UNCHANGED <<localStorage, savedWorld>>
     ELSE /\ NewWorld
          /\ lastOp' = "load"
          /\ holdsWorld' = (loader # "city")
          /\ worldLoaded' = (loader = "provider" /\ WorldItem.kind = "number")
          /\ IF WorldItem.kind \in {"text", "broken"} /\ RemovesOnError(loader)
             THEN Store(NoItem) /\ savedWorld' = NoSave
             ELSE UNCHANGED <<localStorage, savedWorld>>
  /\ UNCHANGED untouchedByStore

\* The loop of Manual (if segments.length > 0) and of the World Builder
\* (if segments.length > 0 and envelopes is empty or lastSegmentCount
\* differs): the first generate() after the load.
FirstGenerate ==
  /\ lastOp = "load" /\ holdsWorld /\ Len(segments) > 0
  /\ \/ page = "manual"
     \/ /\ page = "builder"
        /\ (Len(envelopes) = 0 \/ lastSegmentCount # Len(segments))
  /\ \E d \in GenerateOn(SegCoords,
                [envelopes |-> envelopes, roadBorders |-> roadBorders,
                 buildings |-> buildings, trees |-> trees,
                 laneGuides |-> laneGuides, lastSegmentCount |-> lastSegmentCount]) :
       SetDerived(d)
  /\ lastOp' = "firstGenerate"
  /\ UNCHANGED <<graphVars, page, localStorage, storeVars, untouchedByStore>>

SavedAs(writer, format) ==
  [by |-> writer, params |-> params, derived |-> Derived, format |-> format,
   patched |-> FALSE]

\* handleSaveWorld
HandleSaveWorld ==
  /\ page = "builder" /\ holdsWorld
  /\ \E optimized \in BOOLEAN :
       /\ Store(BuilderRecord(optimized))
       /\ savedWorld' = SavedAs("builder", IF optimized THEN "optimized" ELSE "full")
  /\ lastOp' = "save"
  /\ UNCHANGED <<graphVars, derivedVars, page, params, holdsWorld, worldLoaded,
                 untouchedByStore>>

\* The graphs an import brings, of at most one road.
ImportGraphs ==
  {EmptyGraph} \cup {[xs |-> <<0, c>>, segs |-> << <<0, c>> >>] : c \in Coords \ {0}}

\* handleOSMImport: the imported graph replaces the graph, lastSegmentCount
\* = -1 forces generate() to regenerate, and handleSaveWorldNormal saves
\* the world in the full format.
HandleOSMImport ==
  /\ page = "builder" /\ holdsWorld
  /\ \E g \in ImportGraphs :
       /\ SetGraph(g)
       /\ \E d \in GeneratedFrom(g.segs) :
            /\ SetDerived(d)
            /\ Store([kind |-> "object", graph |-> g,
                      params |-> [n \in SavedParamNames |-> params[n]],
                      hasDerived |-> TRUE,
                      derived |-> [envelopes |-> d.envelopes,
                                   roadBorders |-> d.roadBorders,
                                   buildings |-> d.buildings, trees |-> d.trees,
                                   laneGuides |-> d.laneGuides],
                      isOptimized |-> FALSE])
            /\ savedWorld' =
                 [by |-> "builder", params |-> params,
                  derived |-> [envelopes |-> d.envelopes,
                               roadBorders |-> d.roadBorders,
                               buildings |-> d.buildings, trees |-> d.trees,
                               laneGuides |-> d.laneGuides],
                  format |-> "full", patched |-> FALSE]
  /\ lastOp' = "import"
  /\ UNCHANGED <<page, params, holdsWorld, worldLoaded, untouchedByStore>>

\* WorldProvider.saveWorld
ProviderSaveWorld ==
  /\ page = "provider" /\ holdsWorld
  /\ Store(ProviderRecord)
  /\ savedWorld' = SavedAs("provider", "graph")
  /\ worldLoaded' = TRUE
  /\ lastOp' = "save"
  /\ UNCHANGED <<graphVars, derivedVars, page, params, holdsWorld, untouchedByStore>>

\* CanvasEditor opens on a world of its own: worldRef.current = new World().
OpenCanvasEditor ==
  /\ page' = "canvas"
  /\ NewWorld
  /\ holdsWorld' = TRUE /\ worldLoaded' = FALSE
  /\ lastOp' = "open"
  /\ UNCHANGED <<localStorage, savedWorld, untouchedByStore>>

\* The Toggle Driving Side button of CanvasEditor: the world's drivingSide
\* flips, and a stored record is parsed, given the new drivingSide and
\* stored again; whatever that throws is swallowed.
ToggleDrivingSide ==
  /\ page = "canvas" /\ holdsWorld
  /\ \E side \in Sides \ {params.drivingSide} :
       /\ params' = [params EXCEPT !.drivingSide = side]
       /\ IF WorldItem.kind = "object"
          THEN /\ Store(Patched(WorldItem, side))
               /\ savedWorld' = IF savedWorld.by = "nobody" THEN savedWorld
                                ELSE [savedWorld EXCEPT !.patched = TRUE]
          ELSE UNCHANGED <<localStorage, savedWorld>>
  /\ lastOp' = "toggle"
  /\ UNCHANGED <<graphVars, derivedVars, page, holdsWorld, worldLoaded,
                 untouchedByStore>>

\* No page has opened yet; localStorage holds no world, or an item that is
\* no world record.
InitStore ==
  /\ InitWorld /\ InitBuild /\ InitTrees
  /\ page = "none" /\ cars = <<>> /\ obstacles = <<>> /\ stuckTimers = <<>>
  /\ autoTimer = FALSE /\ generationTimer = 0 /\ scored = <<>> /\ resetTimers = 0
  /\ isTraining = FALSE /\ generation = 1 /\ bestBrain = 0 /\ timerCars = <<>>
  /\ heap = EmptyHeap /\ brains = <<>> /\ trainedBrain = NoRef
  /\ \E item \in {NoItem, BadText, JsonNumber, BrokenRecord} :
       localStorage = [EmptyStorage EXCEPT !["virtualWorld"] = item]
  /\ InitNoSensor /\ InitNoStore /\ InitNoLights

NextStore ==
  \/ \E loader \in Loaders : LoadWorld(loader)
  \/ FirstGenerate
  \/ HandleSaveWorld
  \/ HandleOSMImport
  \/ ProviderSaveWorld
  \/ OpenCanvasEditor
  \/ ToggleDrivingSide

SpecStore == InitStore /\ [][NextStore]_vars

\* C17: saving a world from the World Builder and loading the saved record
\* is lossless for the generation parameters: whenever a page has loaded
\* the record a save of the World Builder wrote, unchanged since, the
\* roadWidth, roadRoundness, buildingWidth, buildingMinLength, spacing,
\* treeSize and drivingSide of the loaded world are those the saved world
\* had.
C17_ParametersRoundTrip ==
  (/\ lastOp \in {"load", "loadGenerate"} /\ WorldItem.kind = "object"
   /\ savedWorld.by = "builder" /\ ~savedWorld.patched)
  => params = savedWorld.params


\* C18: a stored world snapshot that is missing, is not valid JSON, is not
\* an object, or makes World.load throw leaves the page with a fresh empty
\* World and the world reported as not loaded: every step of a loader that
\* finds such an item ends with the page holding a World without points,
\* segments and derived collections, and with worldLoaded false.  This is
\* stated of World.loadFromLocalStorage and of the loaders of AutoTrain,
\* Manual, the World Builder, WorldProvider and CitySimulation.
C18_BadSnapshotGivesEmptyWorld ==
  [][(lastOp' \in {"load", "loadGenerate"} /\ WorldItem.kind # "object")
       => (holdsWorld' /\ EmptyWorld' /\ ~worldLoaded')]_vars


\* The stored record omits the derived collections and its graph has a
\* segment: it has the optimized flag, or no derived field at all.
OmitsDerived ==
  /\ WorldItem.kind = "object"
  /\ (WorldItem.isOptimized \/ ~WorldItem.hasDerived)
  /\ Len(WorldItem.graph.segs) >= 1

\* C19: a snapshot that omits the derived collections heals itself: when a
\* page has loaded a record with the optimized flag, or without the derived
\* fields, whose graph has n >= 1 segments, and has made its first
\* generate() call, the page holds a world with the graph of the record,
\* exactly n envelopes, and the derived collections generate() computes
\* from that graph.
C19_OmittedDerivedHeals ==
  (lastOp \in {"loadGenerate", "firstGenerate"} /\ OmitsDerived)
  => /\ holdsWorld
     /\ SegCoords = WorldItem.graph.segs
     /\ Len(envelopes) = Len(WorldItem.graph.segs)
     /\ \E d \in GeneratedFrom(WorldItem.graph.segs) :
          /\ Derived = [envelopes |-> d.envelopes, roadBorders |-> d.roadBorders,
                        buildings |-> d.buildings, trees |-> d.trees,
                        laneGuides |-> d.laneGuides]
          /\ lastSegmentCount = d.lastSegmentCount

\* A record of WorldProvider.saveWorld with one road was loaded by Manual,
\* whose loop then made the first generate() call.
C19_Witness ==
  /\ lastOp = "firstGenerate" /\ page = "manual" /\ OmitsDerived
  /\ ~WorldItem.hasDerived /\ Len(envelopes) = 1


\* C20: a world saved in the full format needs no regeneration: when a
\* page has loaded a record the World Builder wrote in the full format and
\* has made its first generate() call, the world has the envelopes, road
\* borders, buildings, trees and lane guides the saved world had.
C20_FullSnapshotKept ==
  (/\ lastOp \in {"loadGenerate", "firstGenerate"} /\ WorldItem.kind = "object"
   /\ savedWorld.by = "builder" /\ savedWorld.format = "full")
  => Derived = savedWorld.derived


(***************************************************************************)
(* Car.update on the generated world, the car being driven by any keys.    *)
(* The pages pass no traffic, so the causes of damage are the road and the *)
(* borders passed to update.                                               *)
(***************************************************************************)
KeySet == {"none", "forward", "reverse", "both"}

\* The speeds #move leaves a car with.
CarSpeeds == (friction - maxSpeed \div 2)..(maxSpeed - friction)

\* An undamaged car is on the road of Manual, at any position of the road
\* and with any speed.
InitCar ==
  /\ InitDriveWorld /\ InitNoBrains /\ InitNoSensor /\ InitNoStore /\ InitNoLights
  /\ page = "manual"
  /\ cars \in {<<[NewCar(x) EXCEPT !.speed = sp]>> : x \in 0..RoadLen, sp \in CarSpeeds}

\* car.update(collisionObjects, [], world) under the keys held.
CarUpdate ==
  /\ Undamaged(cars[1])
  /\ \E keys \in KeySet :
       cars' = <<Update(cars[1], GetCollisionObjects, envelopes, keys)>>
  /\ lastOp' = "update"
  /\ UNCHANGED <<stuckTimers, autoTimer, generationTimer, scored, resetTimers, trainVars,
                 untouchedByDrive>>

NextCar == CarUpdate

SpecCar == InitCar /\ [][NextCar]_vars

HitsBorder(car) ==
  \E i \in DOMAIN GetCollisionObjects :
    PolysIntersect(car.polygon, GetCollisionObjects[i])

\* C21: the causes of damage are tested in priority order on every update
\* of an undamaged car: a car whose centre is outside every road envelope
\* after the move is damaged with damageType 'off-road', also when its
\* polygon crosses a border; damageType 'collision' is set only with the
\* centre on the road; and an update that finds no cause leaves the car
\* undamaged with no damageType.
C21_DamagePriority ==
  [][(lastOp' = "update" /\ ~cars[1].damaged) =>
       LET c == cars'[1]
       IN /\ ~IsCarOnRoad(c, envelopes)
               => (c.damaged /\ c.damageType = "off-road")
          /\ (IsCarOnRoad(c, envelopes) /\ HitsBorder(c))
               => (c.damaged /\ c.damageType = "collision")
          /\ c.damageType = "collision" => IsCarOnRoad(c, envelopes)
          /\ (IsCarOnRoad(c, envelopes) /\ ~HitsBorder(c))
               => (~c.damaged /\ c.damageType = "none")]_vars

\* An update has left the car with its centre off the road and its polygon
\* across a border: it is damaged as off-road.
C21_Witness ==
  /\ lastOp = "update" /\ ~IsCarOnRoad(cars[1], envelopes) /\ HitsBorder(cars[1])
  /\ cars[1].damaged /\ cars[1].damageType = "off-road"


(***************************************************************************)
(* Car.#move with its steering.  The angle is counted in steps of 0.03     *)
(* radians away from the heading along the x axis, and the sideways        *)
(* position y in hundredths; for the few steps that are followed the move  *)
(* along the heading is the speed and the move sideways is 3 hundredths of *)
(* the speed per step of angle.                                            *)
(***************************************************************************)
\* The car is followed while its angle and position stay in these bounds.
MaxTurn == 2
MaxAhead == 12
MaxAside == 40
SteerSet == {"none", "left", "right", "both"}

\* if (this.speed != 0) { flip; if (left) angle += 0.03 * flip;
\*                              if (right) angle -= 0.03 * flip }
Steer(angle, speed, steer) ==
  IF speed = 0 THEN angle
  ELSE LET flip == IF speed > 0 THEN 1 ELSE 0 - 1
       IN angle + (IF steer \in {"left", "both"} THEN flip ELSE 0)
                - (IF steer \in {"right", "both"} THEN flip ELSE 0)

\* #move: the speed under the controls, the angle under the steering, then
\* the position along the new angle with the new speed.
MoveSteering(car, ctl, steer) ==
  LET moved == Move(car, ctl)
      angle == Steer(car.angle, moved.speed, steer)
  IN [moved EXCEPT !.angle = angle, !.y = car.y + 3 * angle * moved.speed]

\* new Car(x, y, 30, 50, "KEYS", angle)
InitMove ==
  /\ InitDriveWorld /\ InitNoBrains /\ InitNoSensor /\ InitNoStore /\ InitNoLights
  /\ page = "manual"
  /\ cars = <<[x |-> 0, y |-> 0, angle |-> 0, speed |-> 0]>>

\* One #move with a key for the speed held.
Drive ==
  /\ \E ctl \in KeySet \ {"none"} : \E steer \in SteerSet :
       cars' = <<MoveSteering(cars[1], ctl, steer)>>
  /\ Abs(cars'[1].angle) <= MaxTurn /\ Abs(cars'[1].x) <= MaxAhead
  /\ Abs(cars'[1].y) <= MaxAside
  /\ lastOp' = "drive"
  /\ UNCHANGED <<stuckTimers, autoTimer, generationTimer, scored, resetTimers, trainVars,
                 untouchedByDrive>>

\* One #move with neither forward nor reverse held.
Coast ==
  /\ \E steer \in SteerSet :
       cars' = <<MoveSteering(cars[1], "none", steer)>>
  /\ Abs(cars'[1].angle) <= MaxTurn /\ Abs(cars'[1].x) <= MaxAhead
  /\ Abs(cars'[1].y) <= MaxAside
  /\ lastOp' = "coast"
  /\ UNCHANGED <<stuckTimers, autoTimer, generationTimer, scored, resetTimers, trainVars,
                 untouchedByDrive>>

NextMove ==
  \/ Drive
  \/ Coast

SpecMove == InitMove /\ [][NextMove]_vars

\* C22: the speed is bounded: after every #move, whatever keys were held
\* (forward, reverse, both or neither), -maxSpeed/2 <= speed <= maxSpeed.
C22_SpeedBounded ==
  \A i \in DOMAIN cars :
    lastOp \in {"drive", "coast"} =>
      (-(maxSpeed \div 2) <= cars[i].speed /\ cars[i].speed <= maxSpeed)

\* The car has been driven to the greatest speed forward, with the forward
\* key held at a speed from which the push passes maxSpeed.
C22_Witness ==
  lastOp = "drive" /\ cars[1].speed = maxSpeed - friction

\* C23: friction brings a coasting car to rest: on every #move with neither
\* forward nor reverse held, a speed other than 0 gets strictly nearer to 0
\* without changing sign, and at speed 0 the speed stays 0 and x, y and the
\* angle stay as they are, whatever the steering.
C23_FrictionStops ==
  [][lastOp' = "coast" =>
       /\ cars[1].speed # 0 =>
            /\ Abs(cars'[1].speed) < Abs(cars[1].speed)
            /\ cars'[1].speed * cars[1].speed >= 0
       /\ cars[1].speed = 0 =>
            /\ cars'[1].speed = 0
            /\ cars'[1].x = cars[1].x /\ cars'[1].y = cars[1].y
            /\ cars'[1].angle = cars[1].angle]_vars

\* A car that turned while driving has coasted to rest away from its start,
\* and coasts on at rest.
C23_Witness ==
  /\ lastOp = "coast" /\ cars[1].speed = 0
  /\ cars[1].angle # 0 /\ cars[1].y # 0 /\ cars[1].x # 0


(***************************************************************************)
(* The sampling loop of #generateTrees as synchronous code: a loop that    *)
(* can make a step makes it, and a loop whose condition fails returns.     *)
(***************************************************************************)
\* #generateTrees runs its sampling loop (the building count is not large).
SamplingPath == ~(Len(buildings) > LargeCount)

InitSampling == InitPlacement /\ SamplingPath

NextSampling ==
  \/ \E p \in LoopSamples : TreeTry(p)
  \/ TreesReturn

SpecSampling == InitSampling /\ [][NextSampling]_vars /\ WF_vars(NextSampling)

\* C24: tree sampling terminates.  The sampling loop of #generateTrees
\* makes at most TreeTryLimit (2000) attempts and never goes on past
\* TreeFailLimit (300) consecutive rejections; every attempt either pushes
\* a tree and sets the rejection counter to 0 or adds one to it; the list
\* has at most one tree per attempt; the loop returns only when one of the
\* two budgets is used up; and #generateTrees always returns.
C24_SamplingTerminates ==
  /\ [](SamplingPath =>
          /\ tryCount <= TreeTryLimit /\ consecutiveFailures <= TreeFailLimit
          /\ Len(trees) <= tryCount /\ Len(trees) <= TreeTryLimit)
  /\ [][(SamplingPath /\ tryCount' # tryCount) =>
          /\ tryCount' = tryCount + 1
          /\ \/ Len(trees') = Len(trees) + 1 /\ consecutiveFailures' = 0
             \/ trees' = trees /\ consecutiveFailures' = consecutiveFailures + 1]_vars
  /\ [][(SamplingPath /\ lastOp' = "trees" /\ lastOp = "new") =>
          (tryCount = TreeTryLimit \/ consecutiveFailures = TreeFailLimit)]_vars
  /\ <>(lastOp = "trees")

\* The loop has returned after a tree was pushed between rejections, on the
\* budget of consecutive rejections and before the budget of attempts.
C24_Witness ==
  /\ lastOp = "trees" /\ SamplingPath
  /\ consecutiveFailures = TreeFailLimit /\ tryCount < TreeTryLimit
  /\ trees # <<>>


\* The tree at p lies inside, or within treeSize / 3 of, a building base
\* or a road envelope polygon of the world.
TreeTooNear(p) ==
  \E i \in DOMAIN IllegalPolys(buildings, envelopes) :
    TooNearPoly(IllegalPolys(buildings, envelopes)[i], p, treeSize)

\* C25: no tree of the final tree list lies inside, or within treeSize / 3
\* of, a building base or a road envelope polygon of the world, on the
\* normal path and on the large-input path.
C25_TreesClearOfPolygons ==
  lastOp = "trees" => \A i \in DOMAIN trees : ~TreeTooNear(trees[i].center)


\* C26: after any sequence of GraphEditor mouse events every segment of the
\* graph has both its ends among the points of the graph, and the event
\* that removes a point leaves no segment with that point as an end.
C26_SegmentsOnPoints ==
  /\ [](\A i \in DOMAIN segments :
          segments[i][1] \in Range(points) /\ segments[i][2] \in Range(points))
  /\ [][\A p \in Range(points) \ Range(points') :
          \A i \in DOMAIN segments' : segments'[i][1] # p /\ segments'[i][2] # p]_vars

\* The first point of a road that generate() had seen was removed, and the
\* road went with it.
C26_Witness ==
  /\ points = <<2>> /\ segments = <<>> /\ lastSegmentCount = 1 /\ lastOp = "edit"


(***************************************************************************)
(* AutoTrain with its End Gen button.                                      *)
(***************************************************************************)
\* endGeneration, from the End Gen button shown while training runs:
\* nextGeneration on the cars of the page as they are.  A timer that is
\* pending stays pending.
EndGeneration ==
  /\ page = "auto" /\ isTraining /\ cars # <<>>
  /\ generation < MaxGeneration
  /\ scored' = [i \in DOMAIN cars |->
                 [cars[i] EXCEPT !.fitness = CalculateFitness(cars[i])]]
  /\ bestBrain' = BestScored(scored')
  /\ cars' \in Populations(carSpawnLimit)
  /\ generation' = generation + 1
  /\ stuckTimers' = [i \in 1..carSpawnLimit |-> NoTimer]
  /\ lastOp' = "endGeneration"
  /\ UNCHANGED <<autoTimer, timerCars, generationTimer, resetTimers, isTraining,
                 untouchedByDrive>>

\* The End Gen button is followed while no generation has ended yet, on a
\* population that has just been started or that has set its timer; this
\* bounds the behaviours that are explored, each of which is a behaviour of
\* the page.
FirstEndGeneration ==
  /\ bestBrain = 0
  /\ lastOp = "start" \/ autoTimer
  /\ EndGeneration

\* A timer that is pending fires before the next frame is followed, which
\* bounds the explored behaviours in the same way.
FrameWithoutTimer ==
  /\ timerCars = <<>>
  /\ AutoTick

NextEndGen ==
  \/ FirstStartTraining
  \/ FrameWithoutTimer
  \/ NextGeneration
  \/ FirstEndGeneration

SpecEndGen == InitStop /\ [][NextEndGen]_vars

\* C27: each end of a generation of AutoTrain advances the generation
\* counter by one and replaces the population once, however the timer set
\* by the last frame and the End Gen button interleave: the button ends
\* the population of the page, the timer ends the population whose last
\* frame set it, which is still the population of the page, and either
\* adds one to the counter.
C27_OneAdvancePerEnd ==
  [][/\ lastOp' = "endGeneration" => generation' = generation + 1
     /\ (lastOp' = "nextGeneration" /\ timerCars' # timerCars) =>
          /\ Head(timerCars) = cars
          /\ generation < MaxGeneration => generation' = generation + 1]_vars


\* C28: in manual driving a car that went off the road is reset to the
\* start pose once: a reset fires on a damaged car only, so that after the
\* reset that made the car active again no further reset fires unless the
\* car is damaged again, however many frames passed between the damage and
\* the reset.
C28_ResetOnce ==
  [][(page = "manual" /\ lastOp' = "reset") => cars[1].damaged]_vars


(***************************************************************************)
(* The traffic lights: World.draw and #updateLights.  The geometry of the  *)
(* lights is followed as far as #updateLights uses it: per light, the      *)
(* intersection (graph point of degree > 2) nearest to its center.         *)
(***************************************************************************)
\* Lights among the markings, and intersections they may be nearest to.
MaxLights == 3
MaxCentres == 2
\* World.draw is followed for this many frames.
MaxFrames == 550

greenDuration == 2
yellowDuration == 1
\* tick = Math.floor(this.frameCount / 60)
FramesPerTick == 60

\* A Light marking that was not drawn yet.
NewLight(c) == [nearest |-> c, state |-> "off"]

LightLists ==
  UNION {[1..n -> {NewLight(c) : c \in 1..MaxCentres}] : n \in 1..MaxLights}

\* controlCenter.lights of the control centre at intersection c: the lights
\* nearest to c, in list order (as indexes into the list of lights).
CenterLights(ls, c) ==
  SelectSeq([i \in DOMAIN ls |-> i], LAMBDA i : ls[i].nearest = c)

\* The tick used without reducing it to the cycle of the centre.
CTickUnwrapped(tick, n) == tick

\* cTick = tick % center.ticks, for a centre of n lights.
CTick(tick, n) == tick % (n * (greenDuration + yellowDuration))

GreenYellowIndex(cTick) == cTick \div (greenDuration + yellowDuration)

GreenYellowState(cTick) ==
  IF cTick % (greenDuration + yellowDuration) < greenDuration
  THEN "green" ELSE "yellow"

\* The states #updateLights sets, the frame count being fc.
UpdateLights(ls, fc) ==
  [i \in DOMAIN ls |->
    LET mine == CenterLights(ls, ls[i].nearest)
        at == CHOOSE k \in DOMAIN mine : mine[k] = i
        cTick == CTick(fc \div FramesPerTick, Len(mine))
    IN [ls[i] EXCEPT !.state = IF at - 1 = GreenYellowIndex(cTick)
                               THEN GreenYellowState(cTick)
                               ELSE "red"]]

\* World.draw: #updateLights sets the states, then counts the frame.
WorldDraw ==
  /\ frameCount < MaxFrames
  /\ lights' = UpdateLights(lights, frameCount)
  /\ frameCount' = frameCount + 1
  /\ lastOp' = "draw"
  /\ UNCHANGED <<graphVars, editorVars, derivedVars, dirty, buildVars, treeVars,
                 page, cars, obstacles, stuckTimers, autoTimer, generationTimer,
                 scored, resetTimers, trainVars, brainVars, sensorVars, storeVars>>

\* A world with Light markings near its intersections, not drawn yet.
InitLights ==
  /\ InitWorld /\ InitBuild /\ InitTrees
  /\ page = "none" /\ cars = <<>> /\ obstacles = <<>> /\ stuckTimers = <<>>
  /\ autoTimer = FALSE /\ generationTimer = 0 /\ scored = <<>> /\ resetTimers = 0
  /\ isTraining = FALSE /\ generation = 1 /\ bestBrain = 0 /\ timerCars = <<>>
  /\ InitNoBrains /\ InitNoSensor /\ InitNoStore
  /\ frameCount = 0
  /\ lights \in LightLists

NextLights == WorldDraw

SpecLights == InitLights /\ [][NextLights]_vars

\* The places, among the lights of the centre at c, of those not red.
NonRed(ls, c) ==
  {k \in DOMAIN CenterLights(ls, c) : ls[CenterLights(ls, c)[k]].state # "red"}

\* C29: the lights that share a control centre exclude each other.  After
\* every World.draw exactly one light of a centre is green or yellow and the
\* others are red; that light is yellow in the third tick of its turn and
\* green in the two before; the first draw gives the turn to the first
\* light of the centre, and the turn passes to the next light in list order
\* (from the last to the first) with every third tick, a tick being 60
\* frames.
C29_LightsExclusive ==
  /\ [](lastOp = "draw" =>
         \A c \in {lights[i].nearest : i \in DOMAIN lights} :
           \E k \in DOMAIN CenterLights(lights, c) :
             /\ NonRed(lights, c) = {k}
             /\ lights[CenterLights(lights, c)[k]].state =
                  (IF ((frameCount - 1) \div FramesPerTick) % 3 = 2
                   THEN "yellow" ELSE "green")
             /\ frameCount = 1 => k = 1)
  /\ [][(lastOp = "draw" /\ lastOp' = "draw") =>
         \A c \in {lights[i].nearest : i \in DOMAIN lights} :
           \A k \in NonRed(lights, c) :
             NonRed(lights', c) =
               (IF frameCount % (3 * FramesPerTick) = 0
                THEN {(k % Len(CenterLights(lights, c))) + 1}
                ELSE {k})]_vars

\* Three lights at one centre have all had their turn, and the first is
\* green again.
C29_Witness ==
  /\ lastOp = "draw" /\ Len(lights) = 3
  /\ \A i \in DOMAIN lights : lights[i].nearest = 1
  /\ frameCount = 9 * FramesPerTick + 1
  /\ lights[1].state = "green" /\ lights[2].state = "red" /\ lights[3].state = "red"


(***************************************************************************)
(* #generateBuildings: the supportSegments laid out on the guides.                *)
(***************************************************************************)
\* Guides start at 0..MaxGuideStart and are up to MaxGuideLen long; the
\* world's buildingMinLength is 1..MaxMinLength, its spacing 0..MaxSpacing.
MaxGuideStart == 1
MaxGuideLen == 16
MaxMinLength == 4
MaxSpacing == 3

\* The part of #generateBuildings that lays the supportSegments on the guideSegments, in
\* a world with the parameters params (obstacle.js:683-745).
LaySupports ==
  /\ lastOp = "new" /\ guideSegments # <<>>
  /\ supportSegments' = Flatten([k \in DOMAIN guideSegments |->
                   Supports(guideSegments[k], params.buildingMinLength, params.spacing)])
  /\ lastOp' = "supports"
  /\ UNCHANGED <<graphVars, editorVars, derivedVars, dirty, candidates, guideSegments,
                 treeVars, driveVars>>

\* A world with some buildingMinLength and spacing, and one guide.
InitSupports ==
  /\ InitWorld /\ InitTrees
  /\ page = "none" /\ cars = <<>> /\ obstacles = <<>> /\ stuckTimers = <<>>
  /\ autoTimer = FALSE /\ generationTimer = 0 /\ scored = <<>> /\ resetTimers = 0
  /\ isTraining = FALSE /\ generation = 1 /\ bestBrain = 0 /\ timerCars = <<>>
  /\ InitNoBrains /\ InitNoSensor /\ InitNoLights
  /\ holdsWorld = TRUE /\ worldLoaded = FALSE /\ savedWorld = NoSave
  /\ \E m \in 1..MaxMinLength, s \in 0..MaxSpacing :
       params = [WorldParams("left") EXCEPT !.buildingMinLength = m, !.spacing = s]
  /\ candidates = <<>> /\ supportSegments = <<>>
  /\ \E a \in 0..MaxGuideStart, len \in 1..MaxGuideLen :
       guideSegments = <<[axis |-> "x", fixed |-> 0, p1 |-> a, p2 |-> a + len]>>

NextSupports == LaySupports

SpecSupports == InitSupports /\ [][NextSupports]_vars

\* C30: on a guide of length len >= buildingMinLength, with spacing >= 0,
\* #generateBuildings lays max(1, floor(len / (buildingMinLength + spacing)))
\* supports, all of one length that is at least buildingMinLength, each
\* starting the spacing after the one before it, the first at the p1 of the
\* guide and the last ending at its p2; the building length is never below
\* 0.8 of buildingMinLength, so that the branch that retries with one
\* building fewer is not taken.
C30_SupportsLayout ==
  (lastOp = "supports" /\ guideSegments[1].p2 - guideSegments[1].p1 >= params.buildingMinLength) =>
    LET g == guideSegments[1]
        m == params.buildingMinLength
        s == params.spacing
        len == g.p2 - g.p1
        n == Max2(1, len \div (m + s))
    IN /\ Len(supportSegments) = n
       /\ \A i \in DOMAIN supportSegments :
            /\ supportSegments[i][2] - supportSegments[i][1] >= m * supportSegments[i][3]
            /\ (supportSegments[i][2] - supportSegments[i][1]) * supportSegments[1][3] =
                 (supportSegments[1][2] - supportSegments[1][1]) * supportSegments[i][3]
       /\ \A i \in 1..(Len(supportSegments) - 1) :
            (supportSegments[i + 1][1] - s * supportSegments[i + 1][3]) * supportSegments[i][3] =
              supportSegments[i][2] * supportSegments[i + 1][3]
       /\ supportSegments[1][1] = g.p1 * supportSegments[1][3]
       /\ supportSegments[n][2] = g.p2 * supportSegments[n][3]
       /\ ~TooShort(len - (n - 1) * s, n, m)

\* Three supportSegments were laid on a guide whose length is not a multiple of
\* buildingMinLength + spacing, with a spacing that is not 0.
C30_Witness ==
  /\ lastOp = "supports" /\ Len(supportSegments) = 3 /\ params.spacing > 0
  /\ (guideSegments[1].p2 - guideSegments[1].p1) % (params.buildingMinLength + params.spacing) # 0

====
